---------------------------- MODULE Spec2Model ----------------------------
(***************************************************************************)
(* A model of the Dicta voice pipeline (app/audio/vad.py and               *)
(* app/speech_manager/speech_manager.py):                                  *)
(*   - VADManager: the hysteresis over the classifier's probabilities;     *)
(*   - SpeechThread: the rolling / active / post buffers, driven by the    *)
(*     audio callback thread (on_audio_data) and by the polling loop of    *)
(*     SpeechThread.run, which both call process_post_buffer;              *)
(*   - TypingThread: the two output queues and their drain loop.           *)
(*                                                                         *)
(* Samples are numbered 1, 2, 3, ... in the order the audio stream         *)
(* delivers them, so a buffer is a sequence of sample numbers.             *)
(* A Qt signal is modelled as a call of the slot connected to it, made at  *)
(* the emit: VADManager.speech_started -> SpeechThread.on_speech_started   *)
(* and VADManager.speech_ended -> SpeechThread.on_speech_ended.            *)
(***************************************************************************)
EXTENDS Integers, Sequences, FiniteSets, TLC

VARIABLES
    \* ---- VADManager (app/audio/vad.py)
    vad,            \* the VADManager's fields
    \* ---- what the model records about the VAD's inputs and outputs
    hist,           \* per classified frame: was it classified as speech
    vad_events,     \* the speech_started / speech_ended emissions, in order
    clock,          \* number of samples delivered so far
    last_call,      \* SpecTunables: the last call made on the VADManager
    \* ---- SpeechThread (app/speech_manager/speech_manager.py)
    is_listening,
    pre_buffer_duration,
    post_buffer_duration,
    rolling_buffer,         \* deque(maxlen = rolling_maxlen)
    rolling_maxlen,
    active_buffer,
    post_buffer,
    is_speech_active,
    is_post_buffer_active,
    \* ---- the two threads that run SpeechThread's code
    pc,             \* per thread: the statement it is at
    frame,          \* audio thread: the audio_data of the on_audio_data call
    local,          \* per thread: complete_audio of its process_post_buffer call
    \* ---- what the model records about the pipeline
    utterance,      \* number of Idle -> SpeechActive transitions so far
    pauses,         \* <<utterance, sample>>: in post_buffer when speech resumed
    segments,       \* the calls of speech_service.transcribe, in order
    results,        \* how each transcribe call ended and what was emitted for it
    writes,         \* per accepted frame: the buffer it was appended to
    \* ---- shutdown: SpeechThread.stop / stop_listening on the main thread
    max_frames,     \* the frames the audio stream delivers in this run
    transcriber,    \* the ways speech_service.transcribe can end in this run
    running,        \* SpeechThread.running
    audio_service,  \* AudioService: is_recording, stream, audio
    main_pc,        \* the statement the main thread is at
    main_op,        \* the call the main thread is in
    emitted,        \* counts of the signals emitted and resources released
    cut,            \* recorded when stop_recording returns in stop_listening
    snapshot,       \* when stop() first returned: the observable state, the call
    \* ---- TypingThread (app/speech_manager/speech_manager.py)
    text_queue,
    word_queue,
    typing_running,         \* TypingThread.running
    typing_pc,              \* the statement of TypingThread.run the thread is at
    typing_item,            \* the item popped and not yet typed
    typing_start_called,    \* SpeechManager.__init__ has started the thread
    typing_stop_pc,         \* where a caller of TypingThread.stop() is
    \* ---- what the model records about the output
    enqueued,       \* the enqueue_text / enqueue_word calls, in order
    delivered,      \* the type_text calls, in order
    \* ---- the transcription services (app/transcription/*.py)
    singleton,          \* per service class: _instance and its fields
    speech_service,     \* per SpeechThread: the service its run() constructed
    service_pc,         \* per SpeechThread: where it is in its life
    last_service_call,  \* the last construction of a service, and by whom
    \* ---- the configuration file (app/config.py)
    DEFAULT_CONFIG,     \* the module-level dictionary
    config,             \* Config.config
    config_file,        \* the file ~/.dicta/config.json
    config_call,        \* the last call made on the Config, and how it ended
    \* ---- the start of SpeechThread.run and start_listening
    model_is_loaded,
    pending_auto_listen,
    load_pc,            \* the statement of run's model loading the thread is at
    start_pc            \* per caller: the statement of start_listening it is at

vadVars == <<vad, hist, vad_events, clock, last_call>>
bufVars == <<rolling_buffer, rolling_maxlen, active_buffer, post_buffer,
             is_speech_active, is_post_buffer_active>>
cfgVars == <<pre_buffer_duration, post_buffer_duration>>
obsVars == <<results, writes>>
stopVars == <<max_frames, transcriber, running, audio_service, main_pc, main_op, emitted, cut, snapshot>>
pipeVars == <<is_listening, cfgVars, bufVars, pc, frame, local,
              utterance, pauses, segments, obsVars, stopVars>>

typingVars == <<text_queue, word_queue, typing_running, typing_pc, typing_item,
                typing_start_called, typing_stop_pc, enqueued, delivered>>

svcVars == <<singleton, speech_service, service_pc, last_service_call>>
fileVars == <<DEFAULT_CONFIG, config, config_file, config_call>>
loadVars == <<model_is_loaded, pending_auto_listen, load_pc, start_pc>>
appVars == <<svcVars, fileVars, loadVars>>

vars == <<vadVars, pipeVars, typingVars, appVars>>

---------------------------------------------------------------------------
\* Bounds of the model

\* samples per classifier frame (512 at 16 kHz in the code, scaled down)
SamplesPerFrame == 2
\* frames of samples fed to VADManager.process_frame in SpecVAD
MaxVadCalls == 5
\* largest run length handed to the setters and the constructor
MaxRunLen == 3

\* speech probabilities the classifier may return, in percent
Probs == {0, 50, 100}
\* thresholds handed to set_threshold / the constructor, in percent
ThresholdArgs == {-50, 50, 150}
\* run lengths handed to set_*_threshold / the constructor
RunLenArgs == 0..MaxRunLen

\* the audio callback thread (PyAudio's stream_callback -> on_audio_data) and
\* the thread of SpeechThread.run
Threads == {"audio", "run"}
NoAudio == [audio |-> << >>, utt |-> 0]
\* AudioService.__init__: PyAudio is initialised, no stream is open
AudioServiceInit == [is_recording |-> FALSE, stream |-> "none", audio |-> "pyaudio"]
NothingEmitted == [not_listening |-> 0, errors |-> 0, closes |-> 0,
                   terminates |-> 0, calls |-> 0, late |-> 0, configs |-> 0]
\* no call has been recorded
NoCall == [op |-> "none", arg |-> 0, ran |-> "none"]
NoItem == [lane |-> "none", item |-> 0, word_pending |-> FALSE, behind |-> 0]

Max(a, b) == IF a >= b THEN a ELSE b
Min(a, b) == IF a <= b THEN a ELSE b

---------------------------------------------------------------------------
\* VADManager

\* Buffer durations are counted in units of 0.2 s.
\* the largest buffer duration VADManager keeps: 2.0 s
MaxBufferDuration == 10
\* the defaults of VADManager.__init__: pre_buffer = 1.0 s, post_buffer = 0.2 s
DefaultPreBuffer == 5
DefaultPostBuffer == 1

\* VADManager.__init__ followed by reset_state: clamped tunables, zeroed state
VADInitWith(threshold, silence_threshold, speech_threshold, pre, post) ==
    [ threshold            |-> Max(0, Min(threshold, 100)),
      silence_threshold    |-> Max(1, silence_threshold),
      speech_threshold     |-> Max(1, speech_threshold),
      pre_buffer_duration  |-> Max(0, Min(pre, MaxBufferDuration)),
      post_buffer_duration |-> Max(0, Min(post, MaxBufferDuration)),
      silence_counter      |-> 0,
      speech_counter       |-> 0,
      is_speaking          |-> FALSE,
      frame_buffer         |-> << >> ]

\* VADManager(threshold, silence_threshold, speech_threshold, sampling_rate),
\* the call of SpeechThread.__init__: the buffer durations take their defaults
VADInit(threshold, silence_threshold, speech_threshold) ==
    VADInitWith(threshold, silence_threshold, speech_threshold,
                DefaultPreBuffer, DefaultPostBuffer)

\* a mutant of Hysteresis: a silence frame does not reset speech_counter
HysteresisKeepSpeechCounter(v, is_speech) ==
    IF is_speech
    THEN LET start == ~v.is_speaking /\ v.speech_counter + 1 >= v.speech_threshold
         IN [ vad |-> [v EXCEPT !.speech_counter = @ + 1,
                                !.silence_counter = 0,
                                !.is_speaking = IF start THEN TRUE ELSE @],
              event |-> IF start THEN "started" ELSE "none" ]
    ELSE LET stop == v.is_speaking /\ v.silence_counter + 1 >= v.silence_threshold
         IN [ vad |-> [v EXCEPT !.silence_counter = @ + 1,
                                !.is_speaking = IF stop THEN FALSE ELSE @],
              event |-> IF stop THEN "ended" ELSE "none" ]

\* a mutant of Hysteresis: a speech frame does not reset silence_counter
HysteresisKeepSilenceCounter(v, is_speech) ==
    IF is_speech
    THEN LET start == ~v.is_speaking /\ v.speech_counter + 1 >= v.speech_threshold
         IN [ vad |-> [v EXCEPT !.speech_counter = @ + 1,
                                !.is_speaking = IF start THEN TRUE ELSE @],
              event |-> IF start THEN "started" ELSE "none" ]
    ELSE LET stop == v.is_speaking /\ v.silence_counter + 1 >= v.silence_threshold
         IN [ vad |-> [v EXCEPT !.silence_counter = @ + 1,
                                !.speech_counter = 0,
                                !.is_speaking = IF stop THEN FALSE ELSE @],
              event |-> IF stop THEN "ended" ELSE "none" ]

\* a mutant of Hysteresis: the opposite counter is reset at a transition only
HysteresisResetAtTransition(v, is_speech) ==
    IF is_speech
    THEN LET start == ~v.is_speaking /\ v.speech_counter + 1 >= v.speech_threshold
         IN [ vad |-> [v EXCEPT !.speech_counter = @ + 1,
                                !.silence_counter = IF start THEN 0 ELSE @,
                                !.is_speaking = IF start THEN TRUE ELSE @],
              event |-> IF start THEN "started" ELSE "none" ]
    ELSE LET stop == v.is_speaking /\ v.silence_counter + 1 >= v.silence_threshold
         IN [ vad |-> [v EXCEPT !.silence_counter = @ + 1,
                                !.speech_counter = IF stop THEN 0 ELSE @,
                                !.is_speaking = IF stop THEN FALSE ELSE @],
              event |-> IF stop THEN "ended" ELSE "none" ]

\* a mutant of Hysteresis: the signals are emitted without a look at
\* is_speaking
HysteresisNoSpeakingTest(v, is_speech) ==
    IF is_speech
    THEN LET start == v.speech_counter + 1 >= v.speech_threshold
         IN [ vad |-> [v EXCEPT !.speech_counter = @ + 1,
                                !.silence_counter = 0,
                                !.is_speaking = IF start THEN TRUE ELSE @],
              event |-> IF start THEN "started" ELSE "none" ]
    ELSE LET stop == v.silence_counter + 1 >= v.silence_threshold
         IN [ vad |-> [v EXCEPT !.silence_counter = @ + 1,
                                !.speech_counter = 0,
                                !.is_speaking = IF stop THEN FALSE ELSE @],
              event |-> IF stop THEN "ended" ELSE "none" ]

\* process_frame, lines 164-188: the counters and the speaking flag after one
\* classified frame, and the signal emitted on it
Hysteresis(v, is_speech) ==
    IF is_speech
    THEN LET start == ~v.is_speaking /\ v.speech_counter + 1 >= v.speech_threshold
         IN [ vad |-> [v EXCEPT !.speech_counter = @ + 1,
                                !.silence_counter = 0,
                                !.is_speaking = IF start THEN TRUE ELSE @],
              event |-> IF start THEN "started" ELSE "none" ]
    ELSE LET stop == v.is_speaking /\ v.silence_counter + 1 >= v.silence_threshold
         IN [ vad |-> [v EXCEPT !.silence_counter = @ + 1,
                                !.speech_counter = 0,
                                !.is_speaking = IF stop THEN FALSE ELSE @],
              event |-> IF stop THEN "ended" ELSE "none" ]

\* The classifier's answer for one frame: a probability, or an exception
\* raised by session.run
ClassifierOutcomes == [err : {FALSE}, prob : Probs] \cup [err : {TRUE}, prob : {0}]

\* does process_frame hand a frame to the classifier on this call
FrameReady(v, data) == Len(v.frame_buffer) + Len(data) >= SamplesPerFrame

\* a mutant of IsSpeech: the comparison is strict
IsSpeechStrict(prob, threshold) == prob > threshold

\* process_frame, line 165: is_speech = speech_prob >= self.threshold
IsSpeech(prob, threshold) == prob >= threshold

\* process_frame without the test of line 133: whatever is buffered is
\* classified
ProcessFrameEager(v, data, out) ==
    LET buf == v.frame_buffer \o data
        v1 == [v EXCEPT !.frame_buffer = SubSeq(buf, SamplesPerFrame + 1, Len(buf))]
    IN IF out.err
       THEN [ vad |-> v1, event |-> "none" ]
       ELSE Hysteresis(v1, IsSpeech(out.prob, v1.threshold))

\* VADManager.process_frame(frame): the samples are appended to frame_buffer;
\* with a full frame buffered its first SamplesPerFrame samples are taken out
\* and classified (out), an exception of the classifier leaving the function
\* through the except clause after the samples were taken out.
ProcessFrame(v, data, out) ==
    LET buf == v.frame_buffer \o data IN
    IF Len(buf) < SamplesPerFrame
    THEN [ vad |-> [v EXCEPT !.frame_buffer = buf], event |-> "none" ]
    ELSE LET v1 == [v EXCEPT !.frame_buffer = SubSeq(buf, SamplesPerFrame + 1, Len(buf))]
         IN IF out.err
            THEN [ vad |-> v1, event |-> "none" ]
            ELSE Hysteresis(v1, IsSpeech(out.prob, v1.threshold))

\* set_threshold / set_silence_threshold / set_speech_threshold
SetThresholdOf(v, threshold) == [v EXCEPT !.threshold = Max(0, Min(threshold, 100))]
\* a mutant of SetSilenceThresholdOf: the run length is stored as given
SetSilenceThresholdUnclamped(v, n) == [v EXCEPT !.silence_threshold = n]
SetSilenceThresholdOf(v, n) == [v EXCEPT !.silence_threshold = Max(1, n)]
SetSpeechThresholdOf(v, n) == [v EXCEPT !.speech_threshold = Max(1, n)]
\* set_pre_buffer / set_post_buffer
SetPreBufferOf(v, duration) ==
    [v EXCEPT !.pre_buffer_duration = Max(0, Min(duration, MaxBufferDuration))]
SetPostBufferOf(v, duration) ==
    [v EXCEPT !.post_buffer_duration = Max(0, Min(duration, MaxBufferDuration))]

---------------------------------------------------------------------------
\* What the model records about one call of process_frame, computed from the
\* call's inputs and the emitted signal (not from the counters)

\* the samples clock+1 .. clock+n
Samples(from, n) == [i \in 1..n |-> from + i]

RecordFrame(v, data, out, event) ==
    LET classified == FrameReady(v, data) /\ ~out.err
        hist1 == IF classified THEN Append(hist, IsSpeech(out.prob, v.threshold)) ELSE hist
    IN /\ hist' = hist1
       /\ vad_events' =
            IF event = "none" THEN vad_events
            ELSE Append(vad_events,
                        [ ev   |-> event,
                          at   |-> Len(hist1),
                          need |-> IF event = "started" THEN v.speech_threshold
                                   ELSE v.silence_threshold ])

---------------------------------------------------------------------------
\* SpecVAD: a VADManager fed frames of any length by a caller

\* the SpeechThreads that a run of SpecServices constructs
MaxPipelines == 2
Pipelines == 1..MaxPipelines
\* config.get("transcription_engine", "whisper"), speech_manager.py line 174
Engines == {"whisper", "parakeet"}
\* the model types a service is constructed with
ModelTypes == {"tiny", "large-v3"}
\* the class attributes of a service class: _instance = None and
\* _initialized = False, so that no field of the instance exists yet
ServiceClass == [created |-> FALSE, initialized |-> FALSE,
                 model_type |-> "None", model |-> "None"]
NoServiceCall == [op |-> "none", by |-> 0]

\* no transcription service is constructed
ServicesUnused ==
    /\ singleton = [e \in Engines |-> ServiceClass]
    /\ speech_service = [p \in Pipelines |-> "None"]
    /\ service_pc = [p \in Pipelines |-> "absent"]
    /\ last_service_call = NoServiceCall

\* the sections of DEFAULT_CONFIG (two of the four) and the keys in them
DefaultSections == {"whisper", "ui"}
KeyNames == {"model_size", "typing_delay"}
Absent == "<absent>"
EmptyDict == [k \in KeyNames |-> Absent]
\* DEFAULT_CONFIG, config.py lines 10-35
DefaultConfig ==
    [section \in DefaultSections |->
        IF section = "whisper"
           THEN [EmptyDict EXCEPT !["model_size"] = "tiny"]
           ELSE [EmptyDict EXCEPT !["typing_delay"] = "0.05"]]
\* the section names a caller passes: those of DEFAULT_CONFIG and one more
SectionNames == DefaultSections \cup {"invalid_section"}
\* a section that a dictionary does not have
NoSection == [ref |-> "none", items |-> EmptyDict]
\* self.config = {}, config.py line 44
EmptyConfig == [section \in SectionNames |-> NoSection]
MissingFile == [state |-> "missing", data |-> EmptyConfig, readonly |-> FALSE]
\* an argument of a call: a string or, as in config.set(123, ...), another object
Str(v) == [type |-> "str", val |-> v]
NonStr == [type |-> "int", val |-> "123"]
NoConfigCall == [op |-> "none", section |-> Str(""), key |-> Str(""), raised |-> "none",
                 calls |-> 0]

\* the module app.config is not imported
ConfigUnused ==
    /\ DEFAULT_CONFIG = DefaultConfig
    /\ config = EmptyConfig
    /\ config_file = MissingFile
    /\ config_call = NoConfigCall

\* the callers of start_listening: the main thread and SpeechThread.run
Callers == {"main", "run"}

\* the model is loaded and no start_listening call is in progress
ModelLoaded ==
    /\ model_is_loaded = TRUE
    /\ pending_auto_listen = FALSE
    /\ load_pc = "loop"
    /\ start_pc = [c \in Callers |-> "none"]

\* what the pipeline and VAD specifications leave out
AppUnused ==
    /\ ServicesUnused
    /\ ConfigUnused
    /\ ModelLoaded

\* the SpeechThread is constructed but never started
PipelineUnused ==
    /\ is_listening = FALSE
    /\ pre_buffer_duration = 0 /\ post_buffer_duration = 0
    /\ rolling_buffer = << >> /\ rolling_maxlen = 0
    /\ active_buffer = << >> /\ post_buffer = << >>
    /\ is_speech_active = FALSE /\ is_post_buffer_active = FALSE
    /\ pc = [t \in Threads |-> "off"]
    /\ frame = << >>
    /\ local = [t \in Threads |-> NoAudio]
    /\ utterance = 0 /\ pauses = {} /\ segments = << >>
    /\ results = << >> /\ writes = << >>
    /\ max_frames = 0
    /\ transcriber = {}
    /\ running = FALSE
    /\ audio_service = AudioServiceInit
    /\ main_pc = "idle" /\ main_op = "none"
    /\ emitted = NothingEmitted
    /\ cut = << >> /\ snapshot = << >>

\* no TypingThread is constructed
TypingUnused ==
    /\ text_queue = << >> /\ word_queue = << >>
    /\ typing_running = FALSE
    /\ typing_pc = "unstarted"
    /\ typing_item = NoItem
    /\ typing_start_called = FALSE
    /\ typing_stop_pc = "none"
    /\ enqueued = << >> /\ delivered = << >>

\* no VADManager is used
VADUnused ==
    /\ vad = VADInit(50, 1, 1)
    /\ hist = << >> /\ vad_events = << >> /\ clock = 0
    /\ last_call = NoCall

VADStart ==
    /\ AppUnused
    /\ PipelineUnused
    /\ TypingUnused
    /\ \E th \in ThresholdArgs, sil \in RunLenArgs, sp \in RunLenArgs :
          vad = VADInit(th, sil, sp)
    /\ hist = << >>
    /\ vad_events = << >>
    /\ clock = 0
    /\ last_call = NoCall

\* one call process_frame(frame) with len(frame) = n
VadProcessFrame ==
    \E n \in 1..SamplesPerFrame, out \in ClassifierOutcomes :
        LET data == Samples(clock, n)
            res == ProcessFrame(vad, data, out)
        IN /\ clock < MaxVadCalls * SamplesPerFrame
           /\ (out.err => FrameReady(vad, data))
           /\ vad' = res.vad
           /\ clock' = clock + n
           /\ RecordFrame(vad, data, out, res.event)
           /\ UNCHANGED <<appVars, last_call, pipeVars, typingVars>>

VadSetThreshold ==
    /\ \E th \in ThresholdArgs : vad' = SetThresholdOf(vad, th)
    /\ UNCHANGED <<appVars, hist, vad_events, clock, last_call, pipeVars, typingVars>>

VadSetSilenceThreshold ==
    /\ \E n \in RunLenArgs : vad' = SetSilenceThresholdOf(vad, n)
    /\ UNCHANGED <<appVars, hist, vad_events, clock, last_call, pipeVars, typingVars>>

VadSetSpeechThreshold ==
    /\ \E n \in RunLenArgs : vad' = SetSpeechThresholdOf(vad, n)
    /\ UNCHANGED <<appVars, hist, vad_events, clock, last_call, pipeVars, typingVars>>

NextVAD ==
    \/ VadProcessFrame
    \/ VadSetThreshold
    \/ VadSetSilenceThreshold
    \/ VadSetSpeechThreshold

SpecVAD == VADStart /\ [][NextVAD]_vars

---------------------------------------------------------------------------
\* SpecTunables: a VADManager constructed and reconfigured with arbitrary
\* arguments and fed full frames; every call is recorded in last_call

\* frames fed to process_frame in SpecTunables
MaxTunCalls == 2
\* run lengths handed to the constructor and to set_*_threshold
TunRunLens == {-1, 0, 2}
\* buffer durations handed to the constructor and to set_*_buffer
DurationArgs == {-1, DefaultPreBuffer, MaxBufferDuration + 1}

TunablesStart ==
    /\ AppUnused
    /\ PipelineUnused
    /\ TypingUnused
    /\ \E th \in ThresholdArgs, sil \in TunRunLens, sp \in TunRunLens,
          pre \in DurationArgs, post \in DurationArgs :
          vad = VADInitWith(th, sil, sp, pre, post)
    /\ hist = << >>
    /\ vad_events = << >>
    /\ clock = 0
    /\ last_call = NoCall

\* one call process_frame(frame) with a full frame
TunProcessFrame ==
    \E out \in ClassifierOutcomes :
        LET data == Samples(clock, SamplesPerFrame)
            res == ProcessFrame(vad, data, out)
        IN /\ clock < MaxTunCalls * SamplesPerFrame
           /\ vad' = res.vad
           /\ clock' = clock + SamplesPerFrame
           /\ RecordFrame(vad, data, out, res.event)
           /\ last_call' = [op |-> "process_frame", arg |-> out.prob,
                            ran |-> IF out.err THEN "raised" ELSE "classified"]
           /\ UNCHANGED <<appVars, pipeVars, typingVars>>

TunSetThreshold ==
    /\ \E th \in ThresholdArgs :
          /\ vad' = SetThresholdOf(vad, th)
          /\ last_call' = [op |-> "set_threshold", arg |-> th, ran |-> "set"]
    /\ UNCHANGED <<appVars, hist, vad_events, clock, pipeVars, typingVars>>

TunSetSilenceThreshold ==
    /\ \E n \in TunRunLens :
          /\ vad' = SetSilenceThresholdOf(vad, n)
          /\ last_call' = [op |-> "set_silence_threshold", arg |-> n, ran |-> "set"]
    /\ UNCHANGED <<appVars, hist, vad_events, clock, pipeVars, typingVars>>

TunSetSpeechThreshold ==
    /\ \E n \in TunRunLens :
          /\ vad' = SetSpeechThresholdOf(vad, n)
          /\ last_call' = [op |-> "set_speech_threshold", arg |-> n, ran |-> "set"]
    /\ UNCHANGED <<appVars, hist, vad_events, clock, pipeVars, typingVars>>

TunSetPreBuffer ==
    /\ \E d \in DurationArgs :
          /\ vad' = SetPreBufferOf(vad, d)
          /\ last_call' = [op |-> "set_pre_buffer", arg |-> d, ran |-> "set"]
    /\ UNCHANGED <<appVars, hist, vad_events, clock, pipeVars, typingVars>>

TunSetPostBuffer ==
    /\ \E d \in DurationArgs :
          /\ vad' = SetPostBufferOf(vad, d)
          /\ last_call' = [op |-> "set_post_buffer", arg |-> d, ran |-> "set"]
    /\ UNCHANGED <<appVars, hist, vad_events, clock, pipeVars, typingVars>>

NextTunables ==
    \/ TunProcessFrame
    \/ TunSetThreshold
    \/ TunSetSilenceThreshold
    \/ TunSetSpeechThreshold
    \/ TunSetPreBuffer
    \/ TunSetPostBuffer

SpecTunables == TunablesStart /\ [][NextTunables]_vars

---------------------------------------------------------------------------
\* SpeechThread: the buffers and their state machine

\* bounds of the pipeline model
\* audio frames delivered to on_audio_data
MaxFrames == 5
\* samples per unit of buffer duration (sample_rate, 16000 per second in the
\* code, scaled down): a unit is a frame and a half
SampleRate == 3
\* the configured vad_pre_buffer and vad_post_buffer durations, in units
PreDurations == {0, 1}
PostDurations == {0, 1}
\* the configured vad_silence_threshold and vad_speech_threshold
PipeRunLens == {1, 2}

\* AudioService.chunk_size: PyAudio delivers frames of the VAD's frame size
ChunkSize == SamplesPerFrame

\* int(self.post_buffer_duration * self.sample_rate)
PostThreshold == post_buffer_duration * SampleRate

\* a mutant of DequeExtend: a full deque keeps its oldest items and drops the
\* new ones
DequeExtendKeepOldest(q, maxlen, data) ==
    LET all == q \o data
    IN IF Len(all) <= maxlen THEN all ELSE SubSeq(all, 1, maxlen)

\* deque.extend on a deque with a maxlen: the oldest items fall out
DequeExtend(q, maxlen, data) ==
    LET all == q \o data
    IN IF Len(all) <= maxlen THEN all
       ELSE SubSeq(all, Len(all) - maxlen + 1, Len(all))

\* SpeechThread.on_speech_started, the slot of vad.speech_started
OnSpeechStarted ==
    IF ~is_speech_active
    THEN /\ is_speech_active' = TRUE
         /\ active_buffer' = active_buffer \o rolling_buffer
         /\ utterance' = IF is_post_buffer_active THEN utterance ELSE utterance + 1
         /\ pauses' = IF is_post_buffer_active
                      THEN pauses \cup {<<utterance, post_buffer[i]>> : i \in DOMAIN post_buffer}
                      ELSE pauses
    ELSE UNCHANGED <<appVars, is_speech_active, active_buffer, utterance, pauses>>

\* SpeechThread.on_speech_ended, the slot of vad.speech_ended
OnSpeechEnded ==
    IF is_speech_active
    THEN /\ is_speech_active' = FALSE
         /\ is_post_buffer_active' = TRUE
         /\ post_buffer' = << >>
    ELSE UNCHANGED <<appVars, is_speech_active, is_post_buffer_active, post_buffer>>

\* QThread.isRunning()
TypingIsRunning == typing_pc # "unstarted"

\* QThread.start(): a thread that is not running starts at the top of run();
\* on a running thread start() does nothing
TypingStarted == IF TypingIsRunning THEN typing_pc ELSE "while"

\* SpeechManager.on_transcription_ready(text), the slot of
\* SpeechThread.transcription_ready: the text goes to TypingThread.enqueue_text.
\* The text of a segment is written as the segment's number.
OnTranscriptionReady(text) ==
    /\ text_queue' = Append(text_queue, text)
    /\ enqueued' = Append(enqueued, [lane |-> "text", item |-> text])
    /\ typing_pc' = TypingStarted

\* how a call of speech_service.transcribe can end
TranscribeOutcomes == {"text", "empty", "raise"}

\* a mutant of Emits: no result is passed on
EmitsNever(outcome) == FALSE

\* process_post_buffer, lines 370-374: transcription_ready is emitted for a
\* non-empty text only
Emits(outcome) == outcome = "text"

\* the transcribe call a thread is in: its latest one
SegmentOf(t) ==
    CHOOSE i \in DOMAIN segments :
        /\ segments[i].by = t
        /\ \A j \in DOMAIN segments : segments[j].by = t => j <= i

\* what a thread returns to when process_post_buffer (or on_audio_data) returns
Home(t) == IF t = "audio" THEN "idle" ELSE "poll"

\* a mutant of Accepting: on_audio_data without the test of line 273
AcceptingAlways == TRUE

\* on_audio_data, lines 273-274: a frame is processed only while listening
Accepting == is_listening

\* AudioService.start_recording: the stream is opened and started
StartRecording(a) ==
    IF a.is_recording THEN a
    ELSE [a EXCEPT !.stream = "open", !.is_recording = TRUE]

\* AudioService.stop_recording: the stream is stopped and closed. PyAudio's
\* stop_stream returns once the stream callback is no longer executing.
StopRecording(a) ==
    IF ~a.is_recording THEN a
    ELSE [a EXCEPT !.stream = "none", !.is_recording = FALSE]

\* AudioService.cleanup: stop_recording if recording, then PyAudio.terminate
AudioCleanup(a) == [StopRecording(a) EXCEPT !.audio = "none"]

\* SpeechThread.start_listening with the model loaded: the stream is opened
\* and frames start to arrive. It is called on the main thread, between the
\* main thread's other calls, and not after stop().
StartListening ==
    /\ main_pc = "idle"
    /\ running
    /\ ~is_listening
    /\ audio_service' = StartRecording(audio_service)
    /\ is_listening' = TRUE
    /\ cut' = << >>
    /\ UNCHANGED <<appVars, max_frames, transcriber, running, main_pc, main_op, emitted, snapshot,
                   obsVars, typingVars, vadVars, cfgVars, bufVars, pc, frame, local,
                   utterance, pauses, segments>>

\* on_audio_data, lines 271-310: the stream delivers the next frame; it is
\* put through the VAD, whose signals run their slots before process_frame
\* returns
OnAudioDataOf(n) ==
    /\ Accepting
    /\ clock < max_frames * ChunkSize
    /\ \E out \in ClassifierOutcomes :
         LET data == Samples(clock, n)
             res == ProcessFrame(vad, data, out)
         IN /\ vad' = res.vad
            /\ clock' = clock + n
            /\ frame' = data
            /\ CASE res.event = "started" ->
                      OnSpeechStarted /\ UNCHANGED <<appVars, is_post_buffer_active, post_buffer>>
                 [] res.event = "ended" ->
                      OnSpeechEnded /\ UNCHANGED <<appVars, active_buffer, utterance, pauses>>
                 [] OTHER ->
                      UNCHANGED <<appVars, is_speech_active, is_post_buffer_active,
                                  active_buffer, post_buffer, utterance, pauses>>
    /\ pc' = [pc EXCEPT !["audio"] = "branch"]
    /\ UNCHANGED <<appVars, stopVars, obsVars, typingVars, hist, vad_events, last_call, is_listening, cfgVars,
                   rolling_buffer, rolling_maxlen, local, segments>>

\* the stream callback of AudioService.start_recording, called by PyAudio
\* when its previous call has returned, hands on_audio_data the
\* frames_per_buffer = chunk_size samples PyAudio delivers
OnAudioData ==
    /\ pc["audio"] = "idle"
    /\ OnAudioDataOf(ChunkSize)

\* frame lengths other than chunk_size
MalformedLens == (1..(ChunkSize + 1)) \ {ChunkSize}

\* on_audio_data called with a frame of another length
OnAudioDataMalformed ==
    /\ pc["audio"] = "idle"
    /\ \E n \in MalformedLens : OnAudioDataOf(n)

\* on_audio_data called while not listening (a callback that arrives after
\* stop_listening): lines 273-274 return at once
OnAudioDataNotListening ==
    /\ pc["audio"] = "idle"
    /\ ~Accepting
    /\ cut # << >>
    /\ clock < max_frames * ChunkSize
    /\ clock' = clock + ChunkSize
    /\ emitted' = [emitted EXCEPT !.late = @ + 1]
    /\ UNCHANGED <<appVars, max_frames, transcriber, running, audio_service, main_pc, main_op, cut, snapshot,
                   obsVars, typingVars, vad, hist, vad_events, last_call, is_listening,
                   cfgVars, bufVars, pc, frame, local, utterance, pauses, segments>>

\* on_audio_data, lines 313-319: the if / elif chain picks the buffer. The
\* first two tests read both flags; the last elif reads is_post_buffer_active
\* again, later
ChooseBuffer ==
    /\ pc["audio"] = "branch"
    /\ pc' = [pc EXCEPT !["audio"] =
                 IF ~is_speech_active /\ ~is_post_buffer_active THEN "ext_rolling"
                 ELSE IF is_speech_active THEN "ext_active"
                 ELSE "elif_post"]
    /\ UNCHANGED <<appVars, stopVars, obsVars, typingVars, vadVars, is_listening, cfgVars, bufVars, frame, local,
                   utterance, pauses, segments>>

\* line 315: self.rolling_buffer.extend(audio_data)
ExtendRolling ==
    /\ pc["audio"] = "ext_rolling"
    /\ rolling_buffer' = DequeExtend(rolling_buffer, rolling_maxlen, frame)
    /\ pc' = [pc EXCEPT !["audio"] = "idle"]
    /\ frame' = << >>
    /\ writes' = Append(writes, [first |-> frame[1], len |-> Len(frame), dest |-> "rolling"])
    /\ UNCHANGED <<appVars, stopVars, results, typingVars, vadVars, is_listening, cfgVars, rolling_maxlen, active_buffer,
                   post_buffer, is_speech_active, is_post_buffer_active, local,
                   utterance, pauses, segments>>

\* line 318: self.active_buffer.extend(audio_data)
ExtendActive ==
    /\ pc["audio"] = "ext_active"
    /\ active_buffer' = active_buffer \o frame
    /\ pc' = [pc EXCEPT !["audio"] = "idle"]
    /\ frame' = << >>
    /\ writes' = Append(writes, [first |-> frame[1], len |-> Len(frame), dest |-> "active"])
    /\ UNCHANGED <<appVars, stopVars, results, typingVars, vadVars, is_listening, cfgVars, rolling_buffer, rolling_maxlen,
                   post_buffer, is_speech_active, is_post_buffer_active, local,
                   utterance, pauses, segments>>

\* line 319: elif self.is_post_buffer_active; with the flag cleared meanwhile
\* no branch is taken and on_audio_data returns
ElifPost ==
    /\ pc["audio"] = "elif_post"
    /\ pc' = [pc EXCEPT !["audio"] =
                 IF is_post_buffer_active THEN "ext_post" ELSE "idle"]
    /\ frame' = IF is_post_buffer_active THEN frame ELSE << >>
    /\ writes' = IF is_post_buffer_active THEN writes
                 ELSE Append(writes, [first |-> frame[1], len |-> Len(frame), dest |-> "none"])
    /\ UNCHANGED <<appVars, stopVars, results, typingVars, vadVars, is_listening, cfgVars, bufVars, local,
                   utterance, pauses, segments>>

\* line 321: self.post_buffer.extend(audio_data)
ExtendPost ==
    /\ pc["audio"] = "ext_post"
    /\ post_buffer' = post_buffer \o frame
    /\ pc' = [pc EXCEPT !["audio"] = "post_full"]
    /\ frame' = << >>
    /\ writes' = Append(writes, [first |-> frame[1], len |-> Len(frame), dest |-> "post"])
    /\ UNCHANGED <<appVars, stopVars, results, typingVars, vadVars, is_listening, cfgVars, rolling_buffer, rolling_maxlen,
                   active_buffer, is_speech_active, is_post_buffer_active, local,
                   utterance, pauses, segments>>

\* lines 322-323: if len(self.post_buffer) >= ...: self.process_post_buffer()
PostFull ==
    /\ pc["audio"] = "post_full"
    /\ pc' = [pc EXCEPT !["audio"] =
                 IF Len(post_buffer) >= PostThreshold THEN "ppb_test" ELSE "idle"]
    /\ UNCHANGED <<appVars, stopVars, obsVars, typingVars, vadVars, is_listening, cfgVars, bufVars, frame, local,
                   utterance, pauses, segments>>

\* SpeechThread.run, lines 199-202: the polling loop finds the flag set and
\* calls process_post_buffer (with the flag clear it sleeps and polls again)
RunPoll ==
    /\ pc["run"] = "poll"
    /\ running
    /\ is_post_buffer_active
    /\ pc' = [pc EXCEPT !["run"] = "ppb_test"]
    /\ UNCHANGED <<appVars, stopVars, obsVars, typingVars, vadVars, is_listening, cfgVars, bufVars, frame, local,
                   utterance, pauses, segments>>

\* SpeechThread.run, line 199: with running cleared the loop and the thread end
RunExit ==
    /\ pc["run"] = "poll"
    /\ ~running
    /\ pc' = [pc EXCEPT !["run"] = "done"]
    /\ UNCHANGED <<appVars, stopVars, obsVars, typingVars, vadVars, is_listening, cfgVars,
                   bufVars, frame, local, utterance, pauses, segments>>

\* process_post_buffer, line 353: the test of the post buffer's length
PpbTest(t) ==
    /\ pc[t] = "ppb_test"
    /\ pc' = [pc EXCEPT ![t] =
                 IF Len(post_buffer) >= PostThreshold THEN "ppb_flag" ELSE Home(t)]
    /\ UNCHANGED <<appVars, stopVars, obsVars, typingVars, vadVars, is_listening, cfgVars, bufVars, frame, local,
                   utterance, pauses, segments>>

\* line 354: self.is_post_buffer_active = False
PpbFlag(t) ==
    /\ pc[t] = "ppb_flag"
    /\ is_post_buffer_active' = FALSE
    /\ pc' = [pc EXCEPT ![t] = "ppb_read_active"]
    /\ UNCHANGED <<appVars, stopVars, obsVars, typingVars, vadVars, is_listening, cfgVars, rolling_buffer, rolling_maxlen,
                   active_buffer, post_buffer, is_speech_active, frame, local,
                   utterance, pauses, segments>>

\* lines 357-358: np.array(self.active_buffer), the first part of
\* complete_audio
PpbReadActive(t) ==
    /\ pc[t] = "ppb_read_active"
    /\ local' = [local EXCEPT ![t] = [audio |-> active_buffer, utt |-> utterance]]
    /\ pc' = [pc EXCEPT ![t] = "ppb_read_post"]
    /\ UNCHANGED <<appVars, stopVars, obsVars, typingVars, vadVars, is_listening, cfgVars, bufVars, frame,
                   utterance, pauses, segments>>

\* lines 359-360: np.array(self.post_buffer), and the concatenation
PpbReadPost(t) ==
    /\ pc[t] = "ppb_read_post"
    /\ local' = [local EXCEPT ![t].audio = @ \o post_buffer]
    /\ pc' = [pc EXCEPT ![t] = "ppb_clear_active"]
    /\ UNCHANGED <<appVars, stopVars, obsVars, typingVars, vadVars, is_listening, cfgVars, bufVars, frame,
                   utterance, pauses, segments>>

\* line 363: self.active_buffer = []
PpbClearActive(t) ==
    /\ pc[t] = "ppb_clear_active"
    /\ active_buffer' = << >>
    /\ pc' = [pc EXCEPT ![t] = "ppb_clear_post"]
    /\ UNCHANGED <<appVars, stopVars, obsVars, typingVars, vadVars, is_listening, cfgVars, rolling_buffer, rolling_maxlen,
                   post_buffer, is_speech_active, is_post_buffer_active, frame,
                   local, utterance, pauses, segments>>

\* line 364: self.post_buffer = []
PpbClearPost(t) ==
    /\ pc[t] = "ppb_clear_post"
    /\ post_buffer' = << >>
    /\ pc' = [pc EXCEPT ![t] = "ppb_call"]
    /\ UNCHANGED <<appVars, stopVars, obsVars, typingVars, vadVars, is_listening, cfgVars, rolling_buffer, rolling_maxlen,
                   active_buffer, is_speech_active, is_post_buffer_active, frame,
                   local, utterance, pauses, segments>>

\* line 369: the thread calls self.speech_service.transcribe(complete_audio)
\* and waits in it
PpbTranscribe(t) ==
    /\ pc[t] = "ppb_call"
    /\ segments' = Append(segments, [audio |-> local[t].audio,
                                     utt |-> local[t].utt, by |-> t])
    /\ pc' = [pc EXCEPT ![t] = "transcribing"]
    /\ UNCHANGED <<appVars, stopVars, obsVars, typingVars, vadVars, is_listening, cfgVars, bufVars, frame, local,
                   utterance, pauses>>

\* lines 370-380: transcribe returns (a text, an empty text or an exception),
\* the result is emitted and process_post_buffer returns
PpbReturn(t) ==
    /\ pc[t] = "transcribing"
    /\ \E outcome \in transcriber :
          /\ results' = Append(results, [seg |-> SegmentOf(t),
                                         outcome |-> outcome,
                                         error_occurred |-> outcome = "raise",
                                         text |-> Emits(outcome)])
          /\ emitted' = IF outcome = "raise"
                        THEN [emitted EXCEPT !.errors = @ + 1] ELSE emitted
          /\ IF Emits(outcome)
             THEN OnTranscriptionReady(SegmentOf(t))
             ELSE UNCHANGED <<appVars, text_queue, enqueued, typing_pc>>
    /\ pc' = [pc EXCEPT ![t] = Home(t)]
    /\ local' = [local EXCEPT ![t] = NoAudio]
    /\ UNCHANGED <<appVars, max_frames, transcriber, running, audio_service, main_pc, main_op, cut, snapshot, writes,
                   word_queue, typing_running, typing_item, typing_start_called,
                   typing_stop_pc, delivered, vadVars, is_listening, cfgVars, bufVars, frame,
                   utterance, pauses, segments>>

\* The state after SpeechManager.__init__: SpeechThread.__init__ and
\* load_settings / update_config have sized the buffers and set the VAD's
\* tunables from the configuration, and SpeechThread.run has loaded the model
\* and entered its polling loop.
PipelineStart(sil, sp, pre, post) ==
    /\ pre_buffer_duration = pre
    /\ post_buffer_duration = post
    /\ vad = SetPostBufferOf(SetPreBufferOf(VADInit(50, sil, sp), pre), post)
    /\ hist = << >> /\ vad_events = << >> /\ clock = 0
    /\ last_call = NoCall
    /\ is_listening = FALSE
    /\ rolling_buffer = << >>
    /\ rolling_maxlen = pre_buffer_duration * SampleRate
    /\ active_buffer = << >> /\ post_buffer = << >>
    /\ is_speech_active = FALSE /\ is_post_buffer_active = FALSE
    /\ pc = [t \in Threads |-> Home(t)]
    /\ frame = << >>
    /\ local = [t \in Threads |-> NoAudio]
    /\ utterance = 0 /\ pauses = {} /\ segments = << >>
    /\ results = << >> /\ writes = << >>
    /\ running = TRUE
    /\ audio_service = AudioServiceInit
    /\ main_pc = "idle" /\ main_op = "none"
    /\ emitted = NothingEmitted
    /\ cut = << >> /\ snapshot = << >>

\* the configurations of the pipeline model
PipelineInit ==
    \E sil \in PipeRunLens, sp \in PipeRunLens, pre \in PreDurations, post \in PostDurations :
        PipelineStart(sil, sp, pre, post)

\* SpeechManager.__init__, lines 404 and 426: the TypingThread is constructed
\* and started
TypingRunning ==
    /\ text_queue = << >> /\ word_queue = << >>
    /\ typing_running = TRUE
    /\ typing_pc = "while"
    /\ typing_item = NoItem
    /\ typing_start_called = TRUE
    /\ typing_stop_pc = "none"
    /\ enqueued = << >> /\ delivered = << >>

\* In Spec the transcriber returns a text for every segment.
Init ==
    /\ AppUnused
    /\ PipelineInit
    /\ TypingRunning
    /\ max_frames = MaxFrames
    /\ transcriber = {"text"}

Next ==
    \/ StartListening
    \/ OnAudioData
    \/ ChooseBuffer
    \/ ExtendRolling
    \/ ExtendActive
    \/ ElifPost
    \/ ExtendPost
    \/ PostFull
    \/ RunPoll
    \/ \E t \in Threads : PpbTest(t)
    \/ \E t \in Threads : PpbFlag(t)
    \/ \E t \in Threads : PpbReadActive(t)
    \/ \E t \in Threads : PpbReadPost(t)
    \/ \E t \in Threads : PpbClearActive(t)
    \/ \E t \in Threads : PpbClearPost(t)
    \/ \E t \in Threads : PpbTranscribe(t)
    \/ \E t \in Threads : PpbReturn(t)

Spec == Init /\ [][Next]_vars

---------------------------------------------------------------------------
\* Shutdown: SpeechThread.stop_listening and SpeechThread.stop, called on the
\* main thread while the audio callback thread and the run loop go on

\* calls of stop_listening / stop explored by SpecStop
MaxStopCalls == 2
\* audio frames delivered to on_audio_data in SpecStop
MaxStopFrames == 3

\* process_post_buffer calls in progress: the thread is past the call and has
\* not handed its audio to the transcriber yet
InProcessPostBuffer ==
    {t \in Threads : pc[t] \in {"ppb_test", "ppb_flag", "ppb_read_active",
                                "ppb_read_post", "ppb_clear_active",
                                "ppb_clear_post", "ppb_call"}}

\* what a caller can observe of the SpeechThread and its AudioService
Observable ==
    [ is_listening |-> is_listening, running |-> running,
      is_speech_active |-> is_speech_active,
      is_post_buffer_active |-> is_post_buffer_active,
      rolling_buffer |-> rolling_buffer, active_buffer |-> active_buffer,
      post_buffer |-> post_buffer, vad |-> vad,
      audio_service |-> audio_service,
      segments |-> segments, results |-> results,
      not_listening |-> emitted.not_listening, errors |-> emitted.errors,
      closes |-> emitted.closes, terminates |-> emitted.terminates ]

\* the main thread calls SpeechThread.stop_listening(); line 238
CallStopListening ==
    /\ main_pc = "idle"
    /\ emitted.calls < MaxStopCalls
    /\ emitted' = [emitted EXCEPT !.calls = @ + 1]
    /\ main_op' = "stop_listening"
    /\ main_pc' = IF is_listening THEN "sl_stop_recording" ELSE "idle"
    /\ UNCHANGED <<appVars, max_frames, transcriber, running, audio_service, cut, snapshot, obsVars,
                   typingVars, vadVars, is_listening, cfgVars, bufVars, pc, frame,
                   local, utterance, pauses, segments>>

\* the main thread calls SpeechThread.stop(); lines 264-266
CallStop ==
    /\ main_pc = "idle"
    /\ emitted.calls < MaxStopCalls
    /\ emitted' = [emitted EXCEPT !.calls = @ + 1]
    /\ running' = FALSE
    /\ main_op' = "stop"
    /\ main_pc' = IF is_listening THEN "sl_stop_recording" ELSE "s_cleanup"
    /\ UNCHANGED <<appVars, max_frames, transcriber, audio_service, cut, snapshot, obsVars,
                   typingVars, vadVars, is_listening, cfgVars, bufVars, pc, frame,
                   local, utterance, pauses, segments>>

\* stop_listening, lines 240-250: stop_recording returns once no callback is
\* executing, then is_listening is cleared and "Not Listening" is emitted
SlStopRecording ==
    /\ main_pc = "sl_stop_recording"
    /\ pc["audio"] = "idle"
    /\ audio_service' = StopRecording(audio_service)
    /\ is_listening' = FALSE
    /\ emitted' = [emitted EXCEPT !.not_listening = @ + 1,
                                  !.closes = IF audio_service.stream = "open"
                                             THEN @ + 1 ELSE @]
    /\ cut' = << [segs |-> Len(segments),
                  inflight |-> Cardinality(InProcessPostBuffer),
                  speech |-> is_speech_active,
                  post |-> post_buffer,
                  returned |-> FALSE] >>
    /\ main_pc' = "sl_reset_speech"
    /\ UNCHANGED <<appVars, max_frames, transcriber, running, main_op, snapshot, obsVars,
                   typingVars, vadVars, cfgVars, bufVars, pc, frame,
                   local, utterance, pauses, segments>>

\* line 253: self.is_speech_active = False
SlResetSpeech ==
    /\ main_pc = "sl_reset_speech"
    /\ is_speech_active' = FALSE
    /\ main_pc' = "sl_reset_post_flag"
    /\ UNCHANGED <<appVars, max_frames, transcriber, running, audio_service, main_op, emitted, cut,
                   snapshot, obsVars, typingVars, vadVars, is_listening, cfgVars,
                   rolling_buffer, rolling_maxlen, active_buffer, post_buffer,
                   is_post_buffer_active, pc, frame, local, utterance, pauses,
                   segments>>

\* a mutant of SlResetPostFlag: the flag is left as it is
SlKeepPostFlag ==
    /\ main_pc = "sl_reset_post_flag"
    /\ main_pc' = "sl_reset_active"
    /\ UNCHANGED <<appVars, max_frames, transcriber, running, audio_service, main_op, emitted, cut,
                   snapshot, obsVars, typingVars, vadVars, is_listening, cfgVars,
                   bufVars, pc, frame, local, utterance, pauses, segments>>

\* line 254: self.is_post_buffer_active = False
SlResetPostFlag ==
    /\ main_pc = "sl_reset_post_flag"
    /\ is_post_buffer_active' = FALSE
    /\ main_pc' = "sl_reset_active"
    /\ UNCHANGED <<appVars, max_frames, transcriber, running, audio_service, main_op, emitted, cut,
                   snapshot, obsVars, typingVars, vadVars, is_listening, cfgVars,
                   rolling_buffer, rolling_maxlen, active_buffer, post_buffer,
                   is_speech_active, pc, frame, local, utterance, pauses,
                   segments>>

\* line 255: self.active_buffer = []
SlResetActive ==
    /\ main_pc = "sl_reset_active"
    /\ active_buffer' = << >>
    /\ main_pc' = "sl_reset_post"
    /\ UNCHANGED <<appVars, max_frames, transcriber, running, audio_service, main_op, emitted, cut,
                   snapshot, obsVars, typingVars, vadVars, is_listening, cfgVars,
                   rolling_buffer, rolling_maxlen, post_buffer,
                   is_speech_active, is_post_buffer_active, pc, frame, local,
                   utterance, pauses, segments>>

\* line 256: self.post_buffer = [], and stop_listening returns (into stop(),
\* line 267, when stop() called it)
SlResetPost ==
    /\ main_pc = "sl_reset_post"
    /\ post_buffer' = << >>
    /\ cut' = << [cut[1] EXCEPT !.returned = TRUE] >>
    /\ main_pc' = IF main_op = "stop" THEN "s_cleanup" ELSE "idle"
    /\ UNCHANGED <<appVars, max_frames, transcriber, running, audio_service, main_op, emitted,
                   snapshot, obsVars, typingVars, vadVars, is_listening, cfgVars,
                   rolling_buffer, rolling_maxlen, active_buffer,
                   is_speech_active, is_post_buffer_active, pc, frame, local,
                   utterance, pauses, segments>>

\* a mutant of StopCleanup: terminate() is called whether or not self.audio
\* is still there
StopCleanupUnguarded ==
    /\ main_pc = "s_cleanup"
    /\ audio_service' = AudioCleanup(audio_service)
    /\ emitted' = [emitted EXCEPT !.terminates = @ + 1]
    /\ main_pc' = "s_wait"
    /\ UNCHANGED <<appVars, max_frames, transcriber, running, main_op, cut, snapshot, obsVars,
                   typingVars, vadVars, is_listening, cfgVars, bufVars, pc, frame,
                   local, utterance, pauses, segments>>

\* stop, lines 267-268: self.audio_service.cleanup()
StopCleanup ==
    /\ main_pc = "s_cleanup"
    /\ audio_service' = AudioCleanup(audio_service)
    /\ emitted' = [emitted EXCEPT
                     !.closes = IF audio_service.is_recording /\ audio_service.stream = "open"
                                THEN @ + 1 ELSE @,
                     !.terminates = IF audio_service.audio # "none" THEN @ + 1 ELSE @]
    /\ main_pc' = "s_wait"
    /\ UNCHANGED <<appVars, max_frames, transcriber, running, main_op, cut, snapshot, obsVars,
                   typingVars, vadVars, is_listening, cfgVars, bufVars, pc, frame,
                   local, utterance, pauses, segments>>

\* stop, line 269: self.wait() returns when run() has returned
StopWait ==
    /\ main_pc = "s_wait"
    /\ pc["run"] = "done"
    /\ main_pc' = "idle"
    /\ snapshot' = IF snapshot = << >> THEN <<Observable, emitted.calls>> ELSE snapshot
    /\ UNCHANGED <<appVars, max_frames, transcriber, running, audio_service, main_op, emitted, cut,
                   obsVars, typingVars, vadVars, is_listening, cfgVars, bufVars,
                   pc, frame, local, utterance, pauses, segments>>

NextStop ==
    \/ StartListening
    \/ OnAudioData
    \/ OnAudioDataNotListening
    \/ ChooseBuffer
    \/ ExtendRolling
    \/ ExtendActive
    \/ ElifPost
    \/ ExtendPost
    \/ PostFull
    \/ RunPoll
    \/ RunExit
    \/ \E t \in Threads : PpbTest(t)
    \/ \E t \in Threads : PpbFlag(t)
    \/ \E t \in Threads : PpbReadActive(t)
    \/ \E t \in Threads : PpbReadPost(t)
    \/ \E t \in Threads : PpbClearActive(t)
    \/ \E t \in Threads : PpbClearPost(t)
    \/ \E t \in Threads : PpbTranscribe(t)
    \/ \E t \in Threads : PpbReturn(t)
    \/ CallStopListening
    \/ CallStop
    \/ SlStopRecording
    \/ SlResetSpeech
    \/ SlResetPostFlag
    \/ SlResetActive
    \/ SlResetPost
    \/ StopCleanup
    \/ StopWait

\* SpecStop starts from the configurations of Spec, with a shorter stream
InitStop ==
    /\ AppUnused
    /\ PipelineInit
    /\ TypingRunning
    /\ max_frames = MaxStopFrames
    /\ transcriber = {"text"}

SpecStop == InitStop /\ [][NextStop]_vars

---------------------------------------------------------------------------
\* TypingThread: the two output queues and the loop that drains them

\* calls of enqueue_text / enqueue_word explored by SpecTyping
MaxItems == 4

Lanes == {"word", "text"}

\* a mutant of PopLeft: the newest item is taken (deque.pop)
PopRight(q) == [item |-> q[Len(q)], rest |-> SubSeq(q, 1, Len(q) - 1)]

\* a mutant of PopLeft: the oldest item is read and left in the deque (q[0])
PopPeek(q) == [item |-> Head(q), rest |-> q]

\* deque.popleft(): the oldest item, and the deque without it
PopLeft(q) == [item |-> Head(q), rest |-> Tail(q)]

\* SpeechManager.__init__, line 426: self.typing_thread.start()
TypingStart ==
    /\ ~TypingIsRunning
    /\ ~typing_start_called
    /\ typing_start_called' = TRUE
    /\ typing_pc' = TypingStarted
    /\ UNCHANGED <<appVars, vadVars, pipeVars, typing_stop_pc, text_queue, word_queue, typing_running, typing_item,
                   enqueued, delivered>>

\* TypingThread.enqueue_text(text)
EnqueueText ==
    /\ Len(enqueued) < MaxItems
    /\ LET text == Len(enqueued) + 1
       IN /\ text_queue' = Append(text_queue, text)
          /\ enqueued' = Append(enqueued, [lane |-> "text", item |-> text])
    /\ typing_pc' = TypingStarted
    /\ UNCHANGED <<appVars, vadVars, pipeVars, typing_stop_pc, word_queue, typing_running, typing_item, typing_start_called,
                   delivered>>

\* TypingThread.enqueue_word(word)
EnqueueWord ==
    /\ Len(enqueued) < MaxItems
    /\ LET word == Len(enqueued) + 1
       IN /\ word_queue' = Append(word_queue, word)
          /\ enqueued' = Append(enqueued, [lane |-> "word", item |-> word])
    /\ typing_pc' = TypingStarted
    /\ UNCHANGED <<appVars, vadVars, pipeVars, typing_stop_pc, text_queue, typing_running, typing_item, typing_start_called,
                   delivered>>

\* TypingThread.stop(), line 69: self.running = False
TypingStop ==
    /\ typing_stop_pc = "none"
    /\ typing_running
    /\ typing_running' = FALSE
    /\ typing_stop_pc' = "waiting"
    /\ UNCHANGED <<appVars, vadVars, pipeVars, text_queue, word_queue, typing_pc, typing_item,
                   typing_start_called, enqueued, delivered>>

\* TypingThread.stop(), line 70: self.wait() has no deadline and returns
\* when run() has returned
TypingStopReturn ==
    /\ typing_stop_pc = "waiting"
    /\ ~TypingIsRunning
    /\ typing_stop_pc' = "returned"
    /\ UNCHANGED <<appVars, vadVars, pipeVars, text_queue, word_queue, typing_running, typing_pc,
                   typing_item, typing_start_called, enqueued, delivered>>

\* the sink does not respond: the type_text call in progress never returns
TypingSinkHangs ==
    /\ typing_pc = "type"
    /\ typing_pc' = "hung"
    /\ UNCHANGED <<appVars, vadVars, pipeVars, text_queue, word_queue, typing_running,
                   typing_item, typing_start_called, typing_stop_pc, enqueued,
                   delivered>>

\* run, line 48: while self.running
TypingWhile ==
    /\ typing_pc = "while"
    /\ typing_pc' = IF typing_running THEN "if_word" ELSE "unstarted"
    /\ UNCHANGED <<appVars, vadVars, pipeVars, typing_stop_pc, text_queue, word_queue, typing_running, typing_item,
                   typing_start_called, enqueued, delivered>>

\* line 50: if self.word_queue
TypingIfWord ==
    /\ typing_pc = "if_word"
    /\ typing_pc' = IF word_queue # << >> THEN "pop_word" ELSE "elif_text"
    /\ UNCHANGED <<appVars, vadVars, pipeVars, typing_stop_pc, text_queue, word_queue, typing_running, typing_item,
                   typing_start_called, enqueued, delivered>>

\* line 51: word = self.word_queue.popleft()
TypingPopWord ==
    /\ typing_pc = "pop_word"
    /\ word_queue' = PopLeft(word_queue).rest
    /\ typing_item' = [lane |-> "word", item |-> PopLeft(word_queue).item,
                       word_pending |-> FALSE,
                       behind |-> Len(word_queue) - 1]
    /\ typing_pc' = "type"
    /\ UNCHANGED <<appVars, vadVars, pipeVars, typing_stop_pc, text_queue, typing_running, typing_start_called,
                   enqueued, delivered>>

\* line 57: elif self.text_queue; with both queues empty, line 65: msleep(50)
TypingElifText ==
    /\ typing_pc = "elif_text"
    /\ typing_pc' = IF text_queue # << >> THEN "pop_text" ELSE "while"
    /\ UNCHANGED <<appVars, vadVars, pipeVars, typing_stop_pc, text_queue, word_queue, typing_running, typing_item,
                   typing_start_called, enqueued, delivered>>

\* line 58: text = self.text_queue.popleft()
TypingPopText ==
    /\ typing_pc = "pop_text"
    /\ text_queue' = PopLeft(text_queue).rest
    /\ typing_item' = [lane |-> "text", item |-> PopLeft(text_queue).item,
                       word_pending |-> word_queue # << >>,
                       behind |-> Len(text_queue) - 1]
    /\ typing_pc' = "type"
    /\ UNCHANGED <<appVars, vadVars, pipeVars, typing_stop_pc, word_queue, typing_running, typing_start_called,
                   enqueued, delivered>>

\* lines 54 and 61: self.text_typer.type_text(...), the call of the sink
TypingTypeText ==
    /\ typing_pc = "type"
    /\ delivered' = Append(delivered, typing_item)
    /\ typing_item' = NoItem
    /\ typing_pc' = "while"
    /\ UNCHANGED <<appVars, vadVars, pipeVars, typing_stop_pc, text_queue, word_queue, typing_running, typing_start_called,
                   enqueued>>

\* TypingThread.__init__
TypingInit ==
    /\ text_queue = << >>
    /\ word_queue = << >>
    /\ typing_running = TRUE
    /\ typing_pc = "unstarted"
    /\ typing_item = NoItem
    /\ typing_start_called = FALSE
    /\ typing_stop_pc = "none"
    /\ enqueued = << >>
    /\ delivered = << >>

NextTyping ==
    \/ TypingStart
    \/ EnqueueText
    \/ EnqueueWord
    \/ TypingStop
    \/ TypingStopReturn
    \/ TypingSinkHangs
    \/ TypingWhile
    \/ TypingIfWord
    \/ TypingPopWord
    \/ TypingElifText
    \/ TypingPopText
    \/ TypingTypeText

\* SpeechManager.__init__ has constructed the TypingThread (line 404)
TypingOnly == AppUnused /\ VADUnused /\ PipelineUnused /\ TypingInit

SpecTyping == TypingOnly /\ [][NextTyping]_vars

\* The drain loop and a caller waiting in stop() keep being scheduled; the
\* sink is free to answer or not.
TypingFairness ==
    /\ WF_vars(TypingWhile)
    /\ WF_vars(TypingIfWord)
    /\ WF_vars(TypingPopWord)
    /\ WF_vars(TypingElifText)
    /\ WF_vars(TypingPopText)
    /\ WF_vars(TypingStopReturn)

SpecTypingFair == TypingOnly /\ [][NextTyping]_vars /\ TypingFairness

---------------------------------------------------------------------------
\* Claims about the VAD

\* the frames k-n+1 .. k of the classified frames exist and are all b
RunEndsAt(k, n, b) == k >= n /\ \A j \in (k - n + 1)..k : hist[j] = b

\* C1: speech_started is emitted on a frame only if that frame ends a run of
\* at least speech_threshold consecutive frames classified as speech
\* (prob >= threshold), with no silence frame inside the run.
C1_StartedOnlyAfterSpeechRun ==
    \A i \in DOMAIN vad_events :
        vad_events[i].ev = "started" =>
            RunEndsAt(vad_events[i].at, vad_events[i].need, TRUE)

\* C1 witness: a start that needed a run of two frames or more, emitted after
\* an earlier, broken run (a silence frame precedes the run)
C1_Witness ==
    \E i \in DOMAIN vad_events :
        /\ vad_events[i].ev = "started"
        /\ vad_events[i].need >= 2
        /\ \E j \in 2..(vad_events[i].at - vad_events[i].need) :
              hist[j] = FALSE /\ hist[j - 1] = TRUE

\* C2: speech_ended is emitted on a frame only if the VAD is speaking (the
\* emission before it is a speech_started) and that frame ends a run of at
\* least silence_threshold consecutive frames classified as silence.
C2_EndedOnlyAfterSilenceRun ==
    \A i \in DOMAIN vad_events :
        vad_events[i].ev = "ended" =>
            /\ i > 1 /\ vad_events[i - 1].ev = "started"
            /\ vad_events[i].at > vad_events[i - 1].at
            /\ RunEndsAt(vad_events[i].at, vad_events[i].need, FALSE)

\* C2 witness: an end that needed two silence frames or more, with a shorter
\* silence run inside the utterance that did not end it
C2_Witness ==
    \E i \in DOMAIN vad_events :
        /\ vad_events[i].ev = "ended"
        /\ vad_events[i].need >= 2
        /\ \E j \in (vad_events[i - 1].at + 1)..(vad_events[i].at - vad_events[i].need - 1) :
              hist[j] = FALSE /\ hist[j + 1] = TRUE

---------------------------------------------------------------------------
\* Claims about the segments

Range(s) == {s[i] : i \in DOMAIN s}

\* consecutive samples of the stream, in arrival order
Contiguous(s) == \A k \in 1..(Len(s) - 1) : s[k + 1] = s[k] + 1

\* the utterances in which speech resumed while the post buffer was filling
Resumed == {p[1] : p \in pauses}

SegmentsOf(u) == {i \in DOMAIN segments : segments[i].utt = u}

\* C3: every segment handed to the transcriber is a contiguous slice of the
\* delivered stream: samples in arrival order, none twice and none missing
\* between its first and its last sample; the second and later segments of a
\* session included.
C3_SegmentsContiguous ==
    \A i \in DOMAIN segments : Contiguous(segments[i].audio)

\* C4: when speech resumes during PostBuffer, exactly one segment is
\* finalized for the whole utterance, never two.
C4_OneSegmentPerResumedUtterance ==
    \A u \in Resumed : Cardinality(SegmentsOf(u)) <= 1

\* C5: the samples that were in the post buffer when speech resumed are in
\* the segment finalized for that utterance.
C5_PauseSamplesInSegment ==
    \A i \in DOMAIN segments : \A p \in pauses :
        p[1] = segments[i].utt => p[2] \in Range(segments[i].audio)

\* C6: each speech event yields one finalized segment and one transcribe
\* call, under every interleaving of the audio callback with the polling
\* loop of SpeechThread.run.
C6_OneSegmentPerSpeechEvent ==
    \A i, j \in DOMAIN segments :
        i # j => segments[i].utt # segments[j].utt

\* C7: at no time are two transcribe calls in progress at once.
C7_OneTranscribeInFlight ==
    Cardinality({t \in Threads : pc[t] = "transcribing"}) <= 1

\* C8: on_audio_data hands a completed segment off and returns without
\* waiting for speech_service.transcribe: the audio callback thread is never
\* inside a transcribe call.
C8_AudioPathDoesNotWait ==
    pc["audio"] # "transcribing"

---------------------------------------------------------------------------
\* Claims about the TypingThread

\* the items of a lane, in the order of a log of [lane, item, ...] records
LaneOf(log, lane) ==
    LET lane_log == SelectSeq(log, LAMBDA e : e.lane = lane)
    IN [k \in DOMAIN lane_log |-> lane_log[k].item]

IsPrefix(s, t) == Len(s) <= Len(t) /\ SubSeq(t, 1, Len(s)) = s

---------------------------------------------------------------------------
\* SpecMalformed: the pipeline fed frames of the expected and of other
\* lengths

\* the stream length in SpecMalformed, in frames of chunk_size
MaxMalformedFrames == 3

\* a pre-buffer of one unit, no post-buffer, run lengths of one frame
InitMalformed ==
    /\ AppUnused
    /\ PipelineInit
    /\ pre_buffer_duration = 1 /\ post_buffer_duration = 0
    /\ vad.speech_threshold = 1 /\ vad.silence_threshold = 1
    /\ TypingRunning
    /\ max_frames = MaxMalformedFrames
    /\ transcriber = {"text"}

NextMalformed ==
    \/ StartListening
    \/ OnAudioData
    \/ OnAudioDataMalformed
    \/ ChooseBuffer
    \/ ExtendRolling
    \/ ExtendActive
    \/ ElifPost
    \/ ExtendPost
    \/ PostFull
    \/ RunPoll
    \/ \E t \in Threads : PpbTest(t)
    \/ \E t \in Threads : PpbFlag(t)
    \/ \E t \in Threads : PpbReadActive(t)
    \/ \E t \in Threads : PpbReadPost(t)
    \/ \E t \in Threads : PpbClearActive(t)
    \/ \E t \in Threads : PpbClearPost(t)
    \/ \E t \in Threads : PpbTranscribe(t)
    \/ \E t \in Threads : PpbReturn(t)

SpecMalformed == InitMalformed /\ [][NextMalformed]_vars

---------------------------------------------------------------------------
\* SpecConfig: the pipeline with SpeechManager.update_config called from the
\* main thread while frames arrive

\* the stream length in SpecConfig, in frames
MaxConfigFrames == 3
\* calls of update_config
MaxConfigCalls == 1
\* the vad_pre_buffer values the configuration may hold when update_config
\* reads it: the valid ones and a negative one
ConfigPreDurations == PreDurations \cup {-1}

\* SpeechManager.update_config: the VAD's setters are called with the
\* configured durations, then SpeechThread's durations are assigned and
\* rolling_buffer is replaced by an empty deque of the new size. deque()
\* raises ValueError for a negative maxlen, which the except clause reports.
\* The configured threshold and run lengths are the ones in use.
UpdateConfig ==
    /\ main_pc = "idle"
    /\ running
    /\ emitted.configs < MaxConfigCalls
    /\ \E pre \in ConfigPreDurations, post \in PostDurations :
          /\ vad' = SetPostBufferOf(SetPreBufferOf(vad, pre), post)
          /\ pre_buffer_duration' = pre
          /\ post_buffer_duration' = post
          /\ IF pre * SampleRate >= 0
             THEN /\ rolling_buffer' = << >>
                  /\ rolling_maxlen' = pre * SampleRate
                  /\ emitted' = [emitted EXCEPT !.configs = @ + 1]
             ELSE /\ UNCHANGED <<appVars, rolling_buffer, rolling_maxlen>>
                  /\ emitted' = [emitted EXCEPT !.configs = @ + 1, !.errors = @ + 1]
    /\ UNCHANGED <<appVars, max_frames, transcriber, running, audio_service, main_pc, main_op, cut, snapshot,
                   obsVars, typingVars, hist, vad_events, clock, last_call, is_listening,
                   active_buffer, post_buffer, is_speech_active, is_post_buffer_active,
                   pc, frame, local, utterance, pauses, segments>>

\* run lengths of one frame
InitConfig ==
    /\ AppUnused
    /\ PipelineInit
    /\ vad.speech_threshold = 1 /\ vad.silence_threshold = 1
    /\ TypingRunning
    /\ max_frames = MaxConfigFrames
    /\ transcriber = {"text"}

NextConfig ==
    \/ StartListening
    \/ OnAudioData
    \/ ChooseBuffer
    \/ ExtendRolling
    \/ ExtendActive
    \/ ElifPost
    \/ ExtendPost
    \/ PostFull
    \/ RunPoll
    \/ \E t \in Threads : PpbTest(t)
    \/ \E t \in Threads : PpbFlag(t)
    \/ \E t \in Threads : PpbReadActive(t)
    \/ \E t \in Threads : PpbReadPost(t)
    \/ \E t \in Threads : PpbClearActive(t)
    \/ \E t \in Threads : PpbClearPost(t)
    \/ \E t \in Threads : PpbTranscribe(t)
    \/ \E t \in Threads : PpbReturn(t)
    \/ UpdateConfig

SpecConfig == InitConfig /\ [][NextConfig]_vars

---------------------------------------------------------------------------
\* SpecOnset: the pipeline with the default vad_speech_threshold of 3 frames
\* and a pre-buffer shorter than the frames that confirm speech

\* the stream length in SpecOnset, in frames
MaxOnsetFrames == 4
\* config.get("vad_speech_threshold", 3)
OnsetRunLen == 3

InitOnset ==
    /\ AppUnused
    /\ PipelineStart(1, OnsetRunLen, 1, 0)
    /\ TypingRunning
    /\ max_frames = MaxOnsetFrames
    /\ transcriber = {"text"}

SpecOnset == InitOnset /\ [][Next]_vars

---------------------------------------------------------------------------
\* SpecRecover: the pipeline with a transcriber that can fail, and the
\* TypingThread draining what on_transcription_ready enqueues

\* audio frames delivered to on_audio_data in SpecRecover
MaxRecoverFrames == 4

\* the configuration with no pre-buffer and no post-buffer and run lengths of
\* one frame: an utterance is two frames long
InitRecover ==
    /\ AppUnused
    /\ PipelineInit
    /\ pre_buffer_duration = 0 /\ post_buffer_duration = 0
    /\ vad.speech_threshold = 1 /\ vad.silence_threshold = 1
    /\ TypingRunning
    /\ max_frames = MaxRecoverFrames
    /\ transcriber = {"text", "raise"}

NextRecover ==
    \/ StartListening
    \/ OnAudioData
    \/ ChooseBuffer
    \/ ExtendRolling
    \/ ExtendActive
    \/ ElifPost
    \/ ExtendPost
    \/ PostFull
    \/ RunPoll
    \/ \E t \in Threads : PpbTest(t)
    \/ \E t \in Threads : PpbFlag(t)
    \/ \E t \in Threads : PpbReadActive(t)
    \/ \E t \in Threads : PpbReadPost(t)
    \/ \E t \in Threads : PpbClearActive(t)
    \/ \E t \in Threads : PpbClearPost(t)
    \/ \E t \in Threads : PpbTranscribe(t)
    \/ \E t \in Threads : PpbReturn(t)
    \/ TypingWhile
    \/ TypingIfWord
    \/ TypingElifText
    \/ TypingPopText
    \/ TypingTypeText

SpecRecover == InitRecover /\ [][NextRecover]_vars

\* C9: TypingThread.run never delivers an item taken from the sentence lane
\* (text_queue) at a step where the word lane (word_queue) holds a pending
\* item: every delivered sentence was popped while word_queue was empty.
C9_WordsBeforeSentences ==
    \A k \in DOMAIN delivered :
        delivered[k].lane = "text" => ~delivered[k].word_pending

\* C10: within each lane, items are delivered in the order they were
\* enqueued: the lane's deliveries are a prefix of the lane's enqueues.
C10_FifoWithinLane ==
    \A lane \in Lanes : IsPrefix(LaneOf(delivered, lane), LaneOf(enqueued, lane))

\* two items of one lane waited in the queue together and both were delivered,
\* in each of the two lanes
C10_Witness ==
    \A lane \in Lanes :
        \E k \in DOMAIN delivered :
            /\ delivered[k].lane = lane
            /\ delivered[k].behind >= 1
            /\ \E m \in (k + 1)..Len(delivered) : delivered[m].lane = lane


\* C11: no enqueued item is delivered to the sink more than once: the
\* type_text calls carry pairwise different items, whichever of enqueue_text,
\* enqueue_word or SpeechManager.__init__ started the thread.
C11_DeliveredAtMostOnce ==
    \A k, m \in DOMAIN delivered :
        k # m => delivered[k].item # delivered[m].item

\* every item of a full series of enqueues was delivered, the thread having
\* been started by an enqueue call and not by SpeechManager.__init__
C11_Witness ==
    /\ Len(delivered) = MaxItems
    /\ ~typing_start_called
    /\ \E k, m \in DOMAIN delivered : delivered[k].lane # delivered[m].lane

---------------------------------------------------------------------------
\* Claims about shutdown

C13_StopIdempotent ==
    snapshot # << >> => Observable = snapshot[1]

\* stop() was the first call and interrupted speech in progress, and a second
\* stop() has run to its end
C13_Witness ==
    /\ snapshot # << >>
    /\ snapshot[2] = 1
    /\ cut # << >> /\ cut[1].speech
    /\ emitted.calls = 2
    /\ main_op = "stop" /\ main_pc = "idle"
    /\ emitted.terminates = 1

\* C14: after stop_listening has returned (and before listening is started
\* again) a frame delivered to on_audio_data is not accepted: the step that
\* takes it off the stream leaves the VAD's counters and speaking flag, the
\* rolling, active and post buffers and the state flags unchanged, appends
\* it to no buffer and emits nothing.
C14_StoppedFramesRejected ==
    [][ (cut # << >> /\ cut[1].returned /\ clock' # clock) =>
            /\ vad' = vad
            /\ UNCHANGED <<appVars, bufVars, is_listening, writes, vad_events, segments>>
            /\ [emitted EXCEPT !.late = 0]' = [emitted EXCEPT !.late = 0] ]_vars

\* a frame was delivered after stop_listening returned from interrupting
\* speech, with the VAD still in its speaking state
C14_Witness ==
    /\ cut # << >> /\ cut[1].returned /\ cut[1].speech
    /\ emitted.late >= 1
    /\ vad.is_speaking
    /\ ~is_listening

\* C15: shutdown does not wait for ever on a sink that does not respond: a
\* caller that has entered TypingThread.stop() (as SpeechManager.cleanup
\* does) eventually returns from it, even when the type_text call in progress
\* never returns.
C15_StopReturns ==
    (typing_stop_pc = "waiting") ~> (typing_stop_pc = "returned")

---------------------------------------------------------------------------
\* Claims about a failing transcriber

\* the transcribe calls that raised, as numbers of segments
Failed == {results[k].seg : k \in {n \in DOMAIN results : results[n].outcome = "raise"}}

\* C16: after a failure of the transcriber on one segment the pipeline
\* keeps listening, the text of every segment transcribed after a failure is
\* handed to the TypingThread, once, and what the sink receives are those
\* texts in that order.
C16_RecoversAfterFailure ==
    /\ Failed # {} => is_listening
    /\ \A k \in DOMAIN results :
          (results[k].outcome = "text" /\ \E n \in 1..(k - 1) : results[n].outcome = "raise")
              => Cardinality({e \in DOMAIN enqueued : enqueued[e].item = results[k].seg}) = 1
    /\ IsPrefix(LaneOf(delivered, "text"), LaneOf(enqueued, "text"))

\* the transcriber raised on a segment, and the segment of a later utterance
\* was transcribed and its text typed
C16_Witness ==
    \E n, k \in DOMAIN results :
        /\ n < k
        /\ results[n].outcome = "raise"
        /\ results[k].outcome = "text"
        /\ segments[results[k].seg].utt > segments[results[n].seg].utt
        /\ \E d \in DOMAIN delivered : delivered[d].item = results[k].seg

\* C17: when the transcription of a segment fails the error is reported, no
\* output item is enqueued for that segment, and the segment's audio is not
\* handed to the transcriber a second time.
C17_FailedSegmentDropped ==
    \A i \in Failed :
        /\ \E k \in DOMAIN results : results[k].seg = i /\ results[k].error_occurred
        /\ \A e \in DOMAIN enqueued : enqueued[e].item # i
        /\ \A j \in DOMAIN segments :
              (j # i /\ segments[i].audio # << >>) =>
                  segments[j].audio # segments[i].audio

\* the first two parts of C17, which hold
C17_ReportedAndNotEnqueued ==
    \A i \in Failed :
        /\ \E k \in DOMAIN results : results[k].seg = i /\ results[k].error_occurred
        /\ \A e \in DOMAIN enqueued : enqueued[e].item # i

---------------------------------------------------------------------------
\* Claims about the buffer a frame is written to

\* C18: every frame accepted by on_audio_data has been appended to exactly
\* one of rolling_buffer, active_buffer and post_buffer when the branch at
\* lines 313-323 is left, and the frames are appended in arrival order.
C18_EachFrameToOneBuffer ==
    /\ \A k \in DOMAIN writes : writes[k].dest \in {"rolling", "active", "post"}
    /\ \A j, k \in DOMAIN writes : j < k => writes[j].first < writes[k].first

---------------------------------------------------------------------------
\* Claims about process_frame and the classifier

\* the samples handed to process_frame by a step that advances the clock
StepData == Samples(clock, clock' - clock)

\* a step of process_frame in which a full frame was taken out of
\* frame_buffer and the classifier raised: no classification is recorded
ClassifierRaised ==
    /\ clock' # clock
    /\ FrameReady(vad, StepData)
    /\ hist' = hist

\* C19: a step on which the classifier raises counts as a silence frame:
\* silence_counter is incremented, speech_counter is reset to 0, and
\* speech_ended is emitted when the VAD is speaking and silence_counter has
\* reached silence_threshold.
C19_ClassifierErrorIsSilence ==
    [][ClassifierRaised =>
          /\ vad'.silence_counter = vad.silence_counter + 1
          /\ vad'.speech_counter = 0
          /\ (vad.is_speaking /\ vad.silence_counter + 1 >= vad.silence_threshold) =>
                /\ ~vad'.is_speaking
                /\ Len(vad_events') = Len(vad_events) + 1
                /\ vad_events'[Len(vad_events')].ev = "ended"]_vars

\* C20: a call of process_frame that leaves fewer than samples_per_frame
\* samples buffered only appends its input to frame_buffer: the counters,
\* is_speaking and the emitted signals are unchanged and nothing is
\* classified. A call that classifies takes exactly samples_per_frame
\* samples, the oldest ones, out of frame_buffer, so that what stays
\* buffered are the newest samples of the stream.
C20_OnlyFullFramesClassified ==
    [][clock' # clock =>
          LET buf == vad.frame_buffer \o StepData IN
          /\ Len(buf) < SamplesPerFrame =>
                /\ vad' = [vad EXCEPT !.frame_buffer = buf]
                /\ hist' = hist
                /\ vad_events' = vad_events
          /\ Len(hist') > Len(hist) =>
                /\ Len(buf) >= SamplesPerFrame
                /\ Len(hist') = Len(hist) + 1
                /\ Len(vad'.frame_buffer) = Len(buf) - SamplesPerFrame
          /\ vad'.frame_buffer =
                Samples(clock' - Len(vad'.frame_buffer), Len(vad'.frame_buffer))]_vars

\* two frames have been classified and a partial frame is held back
C20_Witness ==
    /\ Len(hist) >= 2
    /\ vad.frame_buffer # << >>
    /\ Len(vad.frame_buffer) < SamplesPerFrame

---------------------------------------------------------------------------
\* Claims about the hysteresis counters and the signals

\* C22: the frame classified last decides which counter is zero: after a
\* speech frame silence_counter = 0 and speech_counter counts it, after a
\* silence frame speech_counter = 0 and silence_counter counts it; in every
\* state at most one of the two counters is non-zero.
C22_OppositeCounterReset ==
    /\ vad.speech_counter = 0 \/ vad.silence_counter = 0
    /\ hist # << >> =>
          IF hist[Len(hist)]
          THEN vad.silence_counter = 0 /\ vad.speech_counter >= 1
          ELSE vad.speech_counter = 0 /\ vad.silence_counter >= 1

\* speech, silence, speech: each of the last two frames reset the counter
\* the frame before it had raised, with no transition at the last frame
C22_Witness ==
    /\ Len(hist) >= 3
    /\ hist[Len(hist) - 2] /\ ~hist[Len(hist) - 1] /\ hist[Len(hist)]
    /\ vad.speech_counter = 1 /\ vad.silence_counter = 0
    /\ vad.speech_threshold > 1
    /\ vad_events = << >>

\* C23: the signals of the VAD alternate and begin with speech_started: the
\* first, third, ... emission is speech_started, the second, fourth, ... is
\* speech_ended.
C23_EventsAlternate ==
    \A k \in DOMAIN vad_events :
        vad_events[k].ev = IF k % 2 = 1 THEN "started" ELSE "ended"

\* silence, speech, silence, speech: started, ended and started again
C23_Witness ==
    /\ Len(vad_events) >= 3
    /\ hist # << >> /\ ~hist[1]

---------------------------------------------------------------------------
\* Claims about the tunables of the VADManager

\* C24: a frame whose speech probability equals the threshold is counted as
\* speech: speech_counter is incremented and silence_counter is reset.
C24_ThresholdInclusive ==
    [][(/\ clock' # clock
        /\ last_call'.ran = "classified"
        /\ last_call'.arg = vad.threshold) =>
           /\ vad'.speech_counter = vad.speech_counter + 1
           /\ vad'.silence_counter = 0]_vars

\* a frame with probability 1 was classified at threshold 1 after a silence
\* frame
C24_Witness ==
    /\ last_call.ran = "classified"
    /\ last_call.arg = 100 /\ vad.threshold = 100
    /\ Len(hist) = 2 /\ ~hist[1] /\ hist[2]
    /\ vad.speech_counter = 1

\* C25: whatever arguments the constructor and the setters were called
\* with, threshold is in [0, 1], both run lengths are at least 1 and both
\* buffer durations are in [0, 2] seconds.
C25_TunablesInRange ==
    /\ vad.threshold \in 0..100
    /\ vad.silence_threshold >= 1
    /\ vad.speech_threshold >= 1
    /\ vad.pre_buffer_duration \in 0..MaxBufferDuration
    /\ vad.post_buffer_duration \in 0..MaxBufferDuration

\* a setter was called with a run length below 1 on a VADManager whose other
\* tunables were given out-of-range values too
C25_Witness ==
    /\ last_call.op = "set_silence_threshold" /\ last_call.arg < 1
    /\ vad.silence_threshold = 1
    /\ vad.threshold = 100
    /\ vad.pre_buffer_duration = MaxBufferDuration
    /\ vad.post_buffer_duration = 0

\* the argument of a setter call is outside the range of its tunable
InvalidTunable(c) ==
    \/ c.op = "set_threshold" /\ c.arg \notin 0..100
    \/ c.op \in {"set_silence_threshold", "set_speech_threshold"} /\ c.arg < 1
    \/ c.op \in {"set_pre_buffer", "set_post_buffer"} /\ c.arg \notin 0..MaxBufferDuration

\* C26: a setter called with an invalid value rejects it: every tunable
\* keeps the value it had.
C26_InvalidValueRejected ==
    [][(last_call'.ran = "set" /\ InvalidTunable(last_call')) => vad' = vad]_vars

---------------------------------------------------------------------------
\* Claims about the rolling pre-buffer

RECURSIVE WrittenTo(_, _)
\* the samples of the first k accepted frames that were appended to the
\* buffer dest, in the order of their arrival
WrittenTo(dest, k) ==
    IF k = 0 THEN << >>
    ELSE WrittenTo(dest, k - 1) \o
         (IF writes[k].dest = dest
          THEN Samples(writes[k].first - 1, writes[k].len) ELSE << >>)

\* the last n items of s, or all of s
LastOf(s, n) == IF Len(s) <= n THEN s ELSE SubSeq(s, Len(s) - n + 1, Len(s))

C30_PreBufferCopiedOnce ==
    [][(~is_speech_active /\ is_speech_active' /\ is_post_buffer_active)
          => active_buffer' = active_buffer]_vars

---------------------------------------------------------------------------
\* Claims about frames of an unexpected length

\* C21: a frame whose length is not chunk_size is rejected: an error is
\* reported, the counters and the speaking flag of the VAD are left as they
\* were, and the frame is appended to none of rolling_buffer, active_buffer
\* and post_buffer.
C21_MalformedFrameRejected ==
    [][/\ (clock' # clock /\ clock' - clock # ChunkSize) =>
             /\ vad'.speech_counter = vad.speech_counter
             /\ vad'.silence_counter = vad.silence_counter
             /\ vad'.is_speaking = vad.is_speaking
             /\ emitted'.errors = emitted.errors + 1
       /\ (frame # << >> /\ Len(frame) # ChunkSize /\ frame' = << >>) =>
             UNCHANGED <<appVars, rolling_buffer, active_buffer, post_buffer>>]_vars

---------------------------------------------------------------------------
\* Claims about a change of the buffer durations

\* C27: while an utterance is in flight (SpeechActive or PostBuffer) a
\* change of the configured durations has no effect: post_buffer_duration,
\* which decides when the segment is finalized, and the rolling pre-buffer,
\* its size and its contents, stay as they were until the pipeline is Idle.
C27_DurationChangeDeferred ==
    [][(is_speech_active \/ is_post_buffer_active) =>
          /\ post_buffer_duration' = post_buffer_duration
          /\ pre_buffer_duration' = pre_buffer_duration
          /\ rolling_maxlen' = rolling_maxlen
          /\ rolling_buffer' = rolling_buffer]_vars

---------------------------------------------------------------------------
\* Claims about the onset of an utterance

\* C28: with a speech run length of 3 and a full pre-buffer, the frame on
\* which speech_started is emitted leaves the active buffer with the
\* pre-buffer's capacity of samples plus 3 frames of samples. The frame that
\* is being handled, which line 318 appends before on_audio_data returns, is
\* counted.
C28_ActiveBufferAtOnset ==
    [][(/\ utterance' = utterance + 1
        /\ vad.speech_threshold = OnsetRunLen
        /\ Len(rolling_buffer) = rolling_maxlen) =>
           Len(active_buffer') + Len(frame') = rolling_maxlen + OnsetRunLen * ChunkSize]_vars

---------------------------------------------------------------------------
\* SpecServices: the transcription services and the SpeechThreads that
\* construct them (app/transcription/whisper_service.py, parakeet_service.py,
\* SpeechThread.run, ModelLoader.run)

\* WhisperService(model_type) / ParakeetService(model_type): __new__ returns
\* the one instance of the class, creating it on the first call; __init__
\* sets the fields on the first call and then takes the model type over,
\* dropping the loaded model, when it differs from the current one
ServiceNew(s, model_type) ==
    LET a == [s EXCEPT !.created = TRUE]
        b == IF ~a.initialized
                THEN [a EXCEPT !.model = "None", !.model_type = "None",
                               !.initialized = TRUE]
                ELSE a
    IN  IF model_type # b.model_type
           THEN [b EXCEPT !.model_type = model_type, !.model = "None"]
           ELSE b

\* ensure_model_loaded: loads the model of the current model type unless a
\* model is loaded
EnsureModelLoadedOf(s) ==
    IF s.model = "None" THEN [s EXCEPT !.model = s.model_type] ELSE s

\* what a SpeechThread sees through its speech_service
Observed(p) ==
    [model_type |-> singleton[speech_service[p]].model_type,
     model |-> singleton[speech_service[p]].model]

\* SpeechThread.__init__, lines 83-90
SpeechThreadNew ==
    \E p \in Pipelines :
        /\ service_pc[p] = "absent"
        /\ \A q \in Pipelines : q < p => service_pc[q] # "absent"
        /\ service_pc' = [service_pc EXCEPT ![p] = "constructed"]
        /\ speech_service' = [speech_service EXCEPT ![p] = "None"]
        /\ last_service_call' = [op |-> "thread", by |-> p]
        /\ UNCHANGED <<singleton, fileVars, loadVars, vadVars, pipeVars, typingVars>>

\* SpeechThread.run, lines 174-186: the service of the configured engine is
\* constructed
RunConstructService ==
    \E p \in Pipelines, e \in Engines, model_type \in ModelTypes :
        /\ service_pc[p] = "constructed"
        /\ singleton' = [singleton EXCEPT ![e] = ServiceNew(@, model_type)]
        /\ speech_service' = [speech_service EXCEPT ![p] = e]
        /\ service_pc' = [service_pc EXCEPT ![p] = "loading"]
        /\ last_service_call' = [op |-> "new", by |-> p]
        /\ UNCHANGED <<fileVars, loadVars, vadVars, pipeVars, typingVars>>

\* SpeechThread.run, line 188
RunEnsureModelLoaded ==
    \E p \in Pipelines :
        /\ service_pc[p] = "loading"
        /\ singleton' = [singleton EXCEPT ![speech_service[p]] = EnsureModelLoadedOf(@)]
        /\ service_pc' = [service_pc EXCEPT ![p] = "loaded"]
        /\ last_service_call' = [op |-> "load", by |-> p]
        /\ UNCHANGED <<speech_service, fileVars, loadVars, vadVars, pipeVars, typingVars>>

\* ModelLoader.run, menu_bar_app.py lines 35-43: a background thread
\* constructs a WhisperService
ModelLoaderRun ==
    \E model_type \in ModelTypes :
        /\ singleton' = [singleton EXCEPT !["whisper"] = ServiceNew(@, model_type)]
        /\ last_service_call' = [op |-> "new", by |-> 0]
        /\ UNCHANGED <<speech_service, service_pc, fileVars, loadVars, vadVars, pipeVars, typingVars>>

\* SpeechManager.cleanup, lines 518-528: the SpeechThread is stopped and
\* joined; the service is left as it is
ServiceCleanup ==
    \E p \in Pipelines :
        /\ service_pc[p] = "loaded"
        /\ service_pc' = [service_pc EXCEPT ![p] = "cleaned"]
        /\ last_service_call' = [op |-> "cleanup", by |-> p]
        /\ UNCHANGED <<singleton, speech_service, fileVars, loadVars, vadVars, pipeVars, typingVars>>

InitServices ==
    /\ ServicesUnused
    /\ ConfigUnused
    /\ ModelLoaded
    /\ VADUnused
    /\ PipelineUnused
    /\ TypingUnused

NextServices ==
    \/ SpeechThreadNew
    \/ RunConstructService
    \/ RunEnsureModelLoaded
    \/ ModelLoaderRun
    \/ ServiceCleanup

SpecServices == InitServices /\ [][NextServices]_vars

---------------------------------------------------------------------------
\* SpecConfigFile: the Config of app/config.py, its file and DEFAULT_CONFIG.
\* A dictionary is a function from KeyNames to a value or Absent. A section
\* of Config.config is either a dictionary of its own (ref "own") or the
\* very dictionary object that DEFAULT_CONFIG holds for the section (ref
\* "default"), which is what DEFAULT_CONFIG.copy() and line 75 put there.

\* the calls made on the Config in a run of SpecConfigFile
MaxConfigFileCalls == 4
\* the values that set() is called with
SetValues == {"base"}
SectionArgs == {Str(v) : v \in SectionNames} \cup {NonStr}
KeyArgs == {Str(k) : k \in KeyNames} \cup {NonStr}

\* DEFAULT_CONFIG.copy(): a new outer dictionary holding the same section
\* objects
ShallowCopy ==
    [section \in SectionNames |->
        IF section \in DefaultSections
           THEN [ref |-> "default", items |-> EmptyDict]
           ELSE NoSection]

\* what json.dump writes for a configuration
Resolve(cfg, defaults) ==
    [section \in SectionNames |->
        IF cfg[section].ref = "default"
           THEN [ref |-> "own", items |-> defaults[section]]
           ELSE cfg[section]]

\* save_config, lines 92-100: the outcome is the file, or the exception
SaveConfigOf(cfg, defaults, file) ==
    IF file.readonly
       THEN [file |-> file, raised |-> "OSError"]
       ELSE [file |-> [state |-> "json", data |-> Resolve(cfg, defaults),
                       readonly |-> FALSE],
             raised |-> "none"]

\* load_config, lines 71-81: the sections and keys of DEFAULT_CONFIG that
\* the loaded configuration lacks are filled in
FillDefaults(cfg, defaults) ==
    [section \in SectionNames |->
        IF section \notin DefaultSections THEN cfg[section]
        ELSE IF cfg[section].ref = "none"
                THEN [ref |-> "default", items |-> EmptyDict]
        ELSE IF cfg[section].ref = "default" THEN cfg[section]
        ELSE [cfg[section] EXCEPT !.items =
                [k \in KeyNames |->
                    IF @[k] = Absent THEN defaults[section][k] ELSE @[k]]]]

\* load_config, lines 64-90
LoadConfigOf(file, defaults) ==
    LET filled == FillDefaults(file.data, defaults)
        saved == IF filled # file.data
                    THEN SaveConfigOf(filled, defaults, file)
                    ELSE [file |-> file, raised |-> "none"]
        fallback == SaveConfigOf(ShallowCopy, defaults, file)
    IN  IF file.state = "json" /\ saved.raised = "none"
           THEN [config |-> filled, file |-> saved.file, raised |-> "none"]
           ELSE [config |-> ShallowCopy, file |-> fallback.file,
                 raised |-> fallback.raised]

\* _ensure_config_exists, lines 48-62
EnsureConfigExistsOf(file, defaults) ==
    IF file.state = "missing"
       THEN SaveConfigOf(ShallowCopy, defaults, file).file
       ELSE file

\* set and remove, lines 138-143 and 166-171: the exception the arguments
\* raise
SetRaisesTypesOnly(section, key) ==
    IF section.type # "str" THEN "TypeError"
    ELSE IF key.type # "str" THEN "TypeError"
    ELSE "none"

SetRaises(section, key) ==
    IF section.type # "str" THEN "TypeError"
    ELSE IF key.type # "str" THEN "TypeError"
    ELSE IF section.val \notin DOMAIN DEFAULT_CONFIG THEN "ValueError"
    ELSE "none"

\* self.config[section][key] = value, or del self.config[section][key] with
\* value Absent: the write goes to the object that the section refers to
WriteKey(cfg, defaults, section, key, value) ==
    IF cfg[section].ref = "default"
       THEN [config |-> cfg,
             defaults |-> [defaults EXCEPT ![section][key] = value]]
       ELSE [config |-> [cfg EXCEPT ![section] =
                            [ref |-> "own", items |-> [@.items EXCEPT ![key] = value]]],
             defaults |-> defaults]

\* Config(): __init__, lines 40-46
ConfigNew ==
    LET file == EnsureConfigExistsOf(config_file, DEFAULT_CONFIG)
        loaded == LoadConfigOf(file, DEFAULT_CONFIG)
    IN  /\ config_call.calls < MaxConfigFileCalls
        /\ config' = IF loaded.raised = "none" THEN loaded.config ELSE config
        /\ config_file' = loaded.file
        /\ config_call' = [op |-> "new", section |-> Str(""), key |-> Str(""),
                           raised |-> loaded.raised, calls |-> config_call.calls + 1]
        /\ UNCHANGED <<DEFAULT_CONFIG, svcVars, loadVars, vadVars, pipeVars, typingVars>>

\* config.load_config(), lines 64-90
ConfigLoad ==
    LET loaded == LoadConfigOf(config_file, DEFAULT_CONFIG)
    IN  /\ config_call.op # "none"
        /\ config_call.calls < MaxConfigFileCalls
        /\ config' = loaded.config
        /\ config_file' = loaded.file
        /\ config_call' = [op |-> "load", section |-> Str(""), key |-> Str(""),
                           raised |-> loaded.raised, calls |-> config_call.calls + 1]
        /\ UNCHANGED <<DEFAULT_CONFIG, svcVars, loadVars, vadVars, pipeVars, typingVars>>

\* config.set(section, key, value), lines 126-153
ConfigSet ==
    \E section \in SectionArgs, key \in KeyArgs, value \in SetValues :
        LET raised == SetRaises(section, key)
            written == WriteKey(config, DEFAULT_CONFIG, section.val, key.val, value)
            saved == SaveConfigOf(written.config, written.defaults, config_file)
        IN  /\ config_call.op # "none"
            /\ config_call.calls < MaxConfigFileCalls
            /\ IF raised # "none"
                  THEN /\ config_call' = [op |-> "set", section |-> section,
                                          key |-> key, raised |-> raised, calls |-> config_call.calls + 1]
                       /\ UNCHANGED <<DEFAULT_CONFIG, config, config_file>>
                  ELSE /\ config' = written.config
                       /\ DEFAULT_CONFIG' = written.defaults
                       /\ config_file' = saved.file
                       /\ config_call' = [op |-> "set", section |-> section,
                                          key |-> key, raised |-> saved.raised, calls |-> config_call.calls + 1]
            /\ UNCHANGED <<svcVars, loadVars, vadVars, pipeVars, typingVars>>

\* config.remove(section, key), lines 155-180
ConfigRemove ==
    \E section \in SectionArgs, key \in KeyArgs :
        LET raised == SetRaises(section, key)
            written == WriteKey(config, DEFAULT_CONFIG, section.val, key.val, Absent)
            saved == SaveConfigOf(written.config, written.defaults, config_file)
            has_key == /\ config[section.val].ref # "none"
                       /\ Resolve(config, DEFAULT_CONFIG)[section.val].items[key.val] # Absent
        IN  /\ config_call.op # "none"
            /\ config_call.calls < MaxConfigFileCalls
            /\ IF raised # "none"
                  THEN /\ config_call' = [op |-> "remove", section |-> Str(""),
                                          key |-> Str(""), raised |-> raised, calls |-> config_call.calls + 1]
                       /\ UNCHANGED <<DEFAULT_CONFIG, config, config_file>>
                  ELSE IF has_key
                  THEN /\ config' = written.config
                       /\ DEFAULT_CONFIG' = written.defaults
                       /\ config_file' = saved.file
                       /\ config_call' = [op |-> "remove", section |-> Str(""),
                                          key |-> Str(""), raised |-> saved.raised, calls |-> config_call.calls + 1]
                  ELSE /\ config_call' = [op |-> "remove", section |-> Str(""),
                                          key |-> Str(""), raised |-> "none", calls |-> config_call.calls + 1]
                       /\ UNCHANGED <<DEFAULT_CONFIG, config, config_file>>
            /\ UNCHANGED <<svcVars, loadVars, vadVars, pipeVars, typingVars>>

\* the file is made read-only, as test_config.py line 169 does
ConfigFileChmod ==
    /\ config_call.op # "none"
    /\ config_call.calls < MaxConfigFileCalls
    /\ ~config_file.readonly
    /\ config_file.state # "missing"
    /\ config_file' = [config_file EXCEPT !.readonly = TRUE]
    /\ config_call' = [op |-> "chmod", section |-> Str(""), key |-> Str(""),
                       raised |-> "none", calls |-> config_call.calls + 1]
    /\ UNCHANGED <<DEFAULT_CONFIG, config, svcVars, loadVars, vadVars, pipeVars, typingVars>>

\* the sections a configuration file is found with before the program runs:
\* absent, empty, or holding one value that is not the default
InitialSections ==
    {NoSection, [ref |-> "own", items |-> EmptyDict],
     [ref |-> "own", items |-> [EmptyDict EXCEPT !["model_size"] = "base"]]}

InitialFiles ==
    {MissingFile, [state |-> "corrupt", data |-> EmptyConfig, readonly |-> FALSE]}
    \cup {[state |-> "json", data |-> d, readonly |-> FALSE] :
              d \in {f \in [SectionNames -> InitialSections] :
                        f["invalid_section"] = NoSection}}

InitConfigFile ==
    /\ ServicesUnused
    /\ ModelLoaded
    /\ VADUnused
    /\ PipelineUnused
    /\ TypingUnused
    /\ DEFAULT_CONFIG = DefaultConfig
    /\ config = EmptyConfig
    /\ config_file \in InitialFiles
    /\ config_call = NoConfigCall

NextConfigFile ==
    \/ ConfigNew
    \/ ConfigLoad
    \/ ConfigSet
    \/ ConfigRemove
    \/ ConfigFileChmod

SpecConfigFile == InitConfigFile /\ [][NextConfigFile]_vars

---------------------------------------------------------------------------
\* SpecTypingLive: the TypingThread with a sink that answers every
\* type_text call, under the scheduling of a running thread

NextTypingLive ==
    \/ TypingStart
    \/ EnqueueText
    \/ EnqueueWord
    \/ TypingStop
    \/ TypingStopReturn
    \/ TypingWhile
    \/ TypingIfWord
    \/ TypingPopWord
    \/ TypingElifText
    \/ TypingPopText
    \/ TypingTypeText

\* a started QThread keeps executing run(), and the sink returns
TypingLiveFairness ==
    /\ TypingFairness
    /\ WF_vars(TypingTypeText)

SpecTypingLive == TypingOnly /\ [][NextTypingLive]_vars /\ TypingLiveFairness

---------------------------------------------------------------------------
\* SpecLoad: the start of SpeechThread.run, which loads the model, and the
\* start_listening calls made meanwhile. start_pc[c] is the statement of
\* start_listening that caller c is at or, once the call has returned, the
\* way it returned: "noop", "deferred" or "started".

\* the ways ensure_model_loaded ends at line 188
LoadOutcomes == {"loaded", "failed"}
Returned == {"noop", "deferred", "started"}

\* SpeechManager.start_listening, line 477: the main thread calls
\* SpeechThread.start_listening
StartCall ==
    /\ start_pc["main"] \in Returned \cup {"none"}
    /\ start_pc' = [start_pc EXCEPT !["main"] = "test_listening"]
    /\ UNCHANGED <<model_is_loaded, pending_auto_listen, load_pc, svcVars, fileVars,
                   vadVars, pipeVars, typingVars>>

\* line 210: if not self.is_listening
StartTestListening ==
    \E c \in Callers :
        /\ start_pc[c] = "test_listening"
        /\ start_pc' = [start_pc EXCEPT ![c] = IF is_listening THEN "noop" ELSE "test_loaded"]
        /\ UNCHANGED <<model_is_loaded, pending_auto_listen, load_pc, svcVars, fileVars,
                       vadVars, pipeVars, typingVars>>

\* line 213: if not self.model_is_loaded
StartTestLoaded ==
    \E c \in Callers :
        /\ start_pc[c] = "test_loaded"
        /\ start_pc' = [start_pc EXCEPT ![c] =
                            IF model_is_loaded THEN "start_recording" ELSE "set_pending"]
        /\ UNCHANGED <<model_is_loaded, pending_auto_listen, load_pc, svcVars, fileVars,
                       vadVars, pipeVars, typingVars>>

\* lines 215-216: self.pending_auto_listen = True; return
StartSetPending ==
    \E c \in Callers :
        /\ start_pc[c] = "set_pending"
        /\ pending_auto_listen' = TRUE
        /\ start_pc' = [start_pc EXCEPT ![c] = "deferred"]
        /\ UNCHANGED <<model_is_loaded, load_pc, svcVars, fileVars,
                       vadVars, pipeVars, typingVars>>

\* lines 227-229: the callback is set, the recording started and
\* is_listening set
StartStartRecording ==
    \E c \in Callers :
        /\ start_pc[c] = "start_recording"
        /\ audio_service' = StartRecording(audio_service)
        /\ is_listening' = TRUE
        /\ start_pc' = [start_pc EXCEPT ![c] = "started"]
        /\ UNCHANGED <<model_is_loaded, pending_auto_listen, load_pc, svcVars, fileVars,
                       max_frames, transcriber, running, main_pc, main_op, emitted, cut,
                       snapshot, obsVars, typingVars, vadVars, cfgVars, bufVars, pc,
                       frame, local, utterance, pauses, segments>>

\* run, line 188: ensure_model_loaded() returns
LoadEnsure ==
    \E outcome \in LoadOutcomes :
        /\ load_pc = "ensure"
        /\ load_pc' = IF outcome = "loaded" THEN "set_loaded" ELSE "loop"
        /\ UNCHANGED <<model_is_loaded, pending_auto_listen, start_pc, svcVars, fileVars,
                       vadVars, pipeVars, typingVars>>

\* lines 190-191: self.model_is_loaded = True; model_loaded.emit()
LoadSetLoaded ==
    /\ load_pc = "set_loaded"
    /\ model_is_loaded' = TRUE
    /\ load_pc' = "test_pending"
    /\ UNCHANGED <<pending_auto_listen, start_pc, svcVars, fileVars,
                   vadVars, pipeVars, typingVars>>

\* line 194: if self.pending_auto_listen
LoadTestPending ==
    /\ load_pc = "test_pending"
    /\ load_pc' = IF pending_auto_listen THEN "start" ELSE "loop"
    /\ UNCHANGED <<model_is_loaded, pending_auto_listen, start_pc, svcVars, fileVars,
                   vadVars, pipeVars, typingVars>>

\* line 195: self.start_listening(), called on the run thread
LoadStart ==
    /\ load_pc = "start"
    /\ load_pc' = "in_start"
    /\ start_pc' = [start_pc EXCEPT !["run"] = "test_listening"]
    /\ UNCHANGED <<model_is_loaded, pending_auto_listen, svcVars, fileVars,
                   vadVars, pipeVars, typingVars>>

\* line 196, when the call of line 195 has returned:
\* self.pending_auto_listen = False
LoadClear ==
    /\ load_pc = "in_start"
    /\ start_pc["run"] \in Returned
    /\ pending_auto_listen' = FALSE
    /\ load_pc' = "loop"
    /\ UNCHANGED <<model_is_loaded, start_pc, svcVars, fileVars,
                   vadVars, pipeVars, typingVars>>

\* SpeechThread.__init__ (lines 90 and 124) and the thread started: run is
\* about to load the model
InitLoad ==
    /\ ServicesUnused
    /\ ConfigUnused
    /\ PipelineStart(1, 1, 0, 0)
    /\ TypingRunning
    /\ max_frames = 0
    /\ transcriber = {"text"}
    /\ model_is_loaded = FALSE
    /\ pending_auto_listen = FALSE
    /\ load_pc = "ensure"
    /\ start_pc = [c \in Callers |-> "none"]

NextLoad ==
    \/ StartCall
    \/ StartTestListening
    \/ StartTestLoaded
    \/ StartSetPending
    \/ StartStartRecording
    \/ LoadEnsure
    \/ LoadSetLoaded
    \/ LoadTestPending
    \/ LoadStart
    \/ LoadClear

\* both threads keep running: a call that was entered goes on, and so does
\* run
LoadFairness ==
    /\ WF_vars(StartTestListening)
    /\ WF_vars(StartTestLoaded)
    /\ WF_vars(StartSetPending)
    /\ WF_vars(StartStartRecording)
    /\ WF_vars(LoadEnsure)
    /\ WF_vars(LoadSetLoaded)
    /\ WF_vars(LoadTestPending)
    /\ WF_vars(LoadStart)
    /\ WF_vars(LoadClear)

SpecLoad == InitLoad /\ [][NextLoad]_vars /\ LoadFairness

---------------------------------------------------------------------------
\* Claims about the transcription services

\* C31: the state of a transcription service is owned by the pipeline that
\* constructed it: while a SpeechThread holds its service, the construction
\* of a service by another SpeechThread or by another part of the program
\* changes neither the model type nor the loaded model that the SpeechThread
\* observes through its service.
C31_ServiceOwnedPerPipeline ==
    [][\A p \in Pipelines :
          (/\ service_pc[p] \in {"loading", "loaded"}
           /\ last_service_call'.op = "new"
           /\ last_service_call'.by # p) =>
              Observed(p)' = Observed(p)]_vars

---------------------------------------------------------------------------
\* Claims about the Config

\* a set() call whose arguments are invalid: a section or a key that is not
\* a string, or a section that DEFAULT_CONFIG lacks
InvalidSetArgs(c) ==
    \/ c.section.type # "str"
    \/ c.key.type # "str"
    \/ c.section.val \notin DefaultSections

\* C32: Config.set with a section that is not a string, a key that is not a
\* string, or a section that DEFAULT_CONFIG lacks raises TypeError or
\* ValueError and changes neither the configuration in memory nor the file.
C32_InvalidSetRaisesAndChangesNothing ==
    [][(config_call'.op = "set" /\ InvalidSetArgs(config_call')) =>
          /\ config_call'.raised \in {"TypeError", "ValueError"}
          /\ config' = config
          /\ DEFAULT_CONFIG' = DEFAULT_CONFIG
          /\ config_file' = config_file]_vars

\* a set() with an unknown section has raised ValueError after an earlier
\* set() changed the configuration
C32_Witness ==
    /\ config_call.op = "set"
    /\ config_call.section = Str("invalid_section")
    /\ config_call.raised = "ValueError"
    /\ config["whisper"].items["model_size"] = "base"

\* C40: no sequence of Config operations (construction, load_config filling
\* in missing sections, set, remove) modifies the module-level
\* DEFAULT_CONFIG.
C40_DefaultConfigNeverModified ==
    DEFAULT_CONFIG = DefaultConfig

---------------------------------------------------------------------------
\* Claims about the delivery of the output

\* the item numbered i has been handed to the sink
Delivered(i) == \E j \in 1..Len(delivered) : delivered[j].item = i

\* C33: every item that enqueue_text or enqueue_word has accepted is
\* eventually handed to the sink, whatever the sequence of calls, the calls
\* made after TypingThread.stop(), which start the thread again, included.
C33_EnqueuedEventuallyDelivered ==
    \A i \in 1..MaxItems : [](Len(enqueued) >= i => <>Delivered(i))

---------------------------------------------------------------------------
\* Claims about the phases of the pipeline

\* C34: is_speech_active and is_post_buffer_active are never both true,
\* whatever frames and VAD events the pipeline has handled.
C34_FlagsExclusive ==
    ~(is_speech_active /\ is_post_buffer_active)

\* no thread is inside on_audio_data, process_post_buffer, stop_listening
\* or stop
Quiescent ==
    /\ \A t \in Threads : pc[t] \in {Home(t), "off"}
    /\ main_pc = "idle"

\* C35: whenever the pipeline is Idle, with is_speech_active and
\* is_post_buffer_active both false, the active buffer and the post buffer
\* are empty. The states in the middle of a handler are left out.
C35_IdleBuffersEmpty ==
    (Quiescent /\ ~is_speech_active /\ ~is_post_buffer_active) =>
        (active_buffer = << >> /\ post_buffer = << >>)

\* C36: at every frame boundary, when no handler is in progress,
\* vad.is_speaking is true exactly when is_speech_active is true, also
\* after stop_listening and start_listening.
C36_VadAgreesWithPipeline ==
    Quiescent => (vad.is_speaking <=> is_speech_active)

---------------------------------------------------------------------------
\* Claims about the start of the pipeline

\* C37: a start_listening() call made by the main thread before the model
\* has finished loading is not lost: when the call has returned by
\* deferring and the model load completes, listening eventually starts,
\* under every interleaving of the call with SpeechThread.run.
C37_DeferredStartNotLost ==
    [](start_pc["main"] = "deferred" /\ model_is_loaded => <>is_listening)

---------------------------------------------------------------------------
\* Claims about the sizes of the buffers

\* vad.py lines 57-58, 269 and 279: pre_buffer_samples and
\* post_buffer_samples, int(duration * sampling_rate) of the clamped duration
PreBufferSamples(v) == v.pre_buffer_duration * SampleRate
PostBufferSamples(v) == v.post_buffer_duration * SampleRate

\* C38: the buffer sizes that SpeechThread uses are those of the VAD's
\* clamped configuration: the capacity of the rolling buffer is
\* vad.pre_buffer_samples, the length at which the post buffer is finalized
\* is vad.post_buffer_samples, and both lie between 0 and the samples of the
\* longest duration, whatever durations update_config has read.
C38_BufferSizesMatchVad ==
    /\ rolling_maxlen = PreBufferSamples(vad)
    /\ PostThreshold = PostBufferSamples(vad)
    /\ rolling_maxlen \in 0..(MaxBufferDuration * SampleRate)
    /\ PostThreshold \in 0..(MaxBufferDuration * SampleRate)

\* the samples of a segment that on_audio_data had appended to post_buffer
PostPart(seg) ==
    LET posted == Range(WrittenTo("post", Len(writes)))
    IN  Cardinality({i \in DOMAIN seg.audio : seg.audio[i] \in posted})

\* C39: a segment is finalized on the first frame at which the post buffer
\* reaches post_buffer_duration * sample_rate samples, so the post part of
\* every finalized segment holds at least that many samples and fewer than
\* that many plus one frame.
C39_PostPartWithinOneFrame ==
    \A i \in DOMAIN segments :
        /\ PostPart(segments[i]) >= PostThreshold
        /\ PostPart(segments[i]) < PostThreshold + ChunkSize

=============================================================================
